---- MODULE Spec2Model ----
(***************************************************************************)
(* InMemoryServer of net/src/memory_server.rs: the in-memory router that   *)
(* relays protocol messages between the agents of one "network".           *)
(*                                                                         *)
(* The server's fields are the variables.  Every public method (clock_in,  *)
(* clock_out, register, serve) is one action; serve is one action per      *)
(* protocol variant.  A handler is an operator from a server record to a   *)
(* server record, composed the way the code composes its private methods.  *)
(***************************************************************************)
EXTENDS Integers, Sequences, FiniteSets, TLC

\* ---------------------------------------------------------------- domains
\* DNA addresses, agent ids, sinks and entry addresses are chosen per world
\* (see RoutingWorld, LedgerWorld); a sink is one mpsc channel: a Sender and
\* its clones are the same sink
Contents == {"hi"}
Sinks == {"A", "B"}
\* the threads that call into the server
Clients == {"c1", "c2"}
NoClient == "none"
Idle == [state |-> "idle"]
\* a request id chosen by a client, never issued by the server
Attributes == {"t1", "t2"}

ExternalRequestId == "r-x"

\* ----------------------------------------------------------------- bounds
\* membership world (SpecMembership): clock_in, clock_out, register
MaxClients == 2
MaxRegistered == 3
\* clients in the worlds other than the membership world
MaxFewClients == 1
\* routing world (Spec): multicast and fetch over live and dropped sinks
MaxRoutingRegistered == 2
MaxPublished == 2
MaxDropped == 1
\* track world (SpecTrack): the track handshake
MaxTrackRegistered == 2
MaxTrackRequests == 8
\* ledger world (SpecLedger): replies to the server's own requests
MaxLedgerRegistered == 2
MaxLedgerRequests == 5
MaxLedgerPublished == 1
MaxListLen == 1
\* reconcile world (SpecReconcile): replies with any list and any request id
MaxReconcileRegistered == 1
MaxReconcileRequests == 6
MaxReconcilePublished == 2
MaxReconcileListLen == 2
\* books world (SpecBooks): what the books hold once the replies are in
MaxBooksRegistered == 1
MaxBooksRequests == 4
MaxBooksPublished == 2
MaxBooksStored == 2
MaxBooksListLen == 2
\* concurrent world (SpecConcurrent): calls made by clients in parallel
MaxMetaRegistered == 1
MaxMetaRequests == 6
MaxMetaListLen == 2
MaxMetaStored == 1

MaxCompleteRegistered == 2
MaxCompleteRequests == 6
MaxCompletePublished == 1
MaxCompleteListLen == 2

MaxFrameRegistered == 1
MaxFrameRequests == 5
MaxFramePublished == 1
MaxFrameStored == 1
MaxFrameListLen == 1

MaxScopeRegistered == 2
MaxScopeRequests == 5
MaxScopePublished == 1
MaxScopeListLen == 1

\* replies of either agent to the requests of one bucket
MaxConsumeRegistered == 1
MaxConsumeRequests == 5
MaxConsumePublished == 1
MaxConsumeStored == 1
MaxConsumeListLen == 1

MaxCalls == 4
MaxConcurrentRegistered == 2
MaxConcurrentRequests == 4
MaxConcurrentPublished == 1
\* relay world (SpecRelay): unicasts with and without a route
MaxRelayRegistered == 2
MaxRelayRequests == 4

VARIABLES
    senders,                \* bucket id -> sink
    senders_by_dna,         \* dna address -> sequence of sinks
    client_count,
    published_entry_book,   \* bucket id -> sequence of addresses
    stored_entry_book,
    published_meta_book,
    stored_meta_book,
    trackdna_book,          \* set of bucket ids
    request_book,           \* request id -> bucket id
    request_count,
    closed,                 \* sinks whose receiver has been dropped
    emitted,                \* what the last call sent: <<[sink, msg], ...>>
    result,                 \* how the last call ended
    lastOp,                 \* the last call and its arguments
    issued,                 \* every request id generated so far, in order
    peer_connected_sent,    \* bucket id -> PeerConnected multicasts made for it
    lists_requested,        \* bucket id -> reconciliation batches started for it
    lock,                   \* the client holding the server's Mutex, or NoClient
    call,                   \* client -> the call it is in, or Idle
    calls,                  \* calls begun so far
    inbox,                  \* sink -> what its channel has received, in order
    seq_state,              \* the server after the calls begun, run one by one
    seq_inbox,              \* the sinks' channels after the calls begun, run one by one
    taken,                  \* sink -> how far in its channel its agent has got
    answered                \* bucket id -> the publishing list its agent answered with

serverVars == <<senders, senders_by_dna, client_count, published_entry_book,
                stored_entry_book, published_meta_book, stored_meta_book,
                trackdna_book, request_book, request_count>>
historyVars == <<issued, peer_connected_sent, lists_requested>>
concurrentVars == <<lock, call, calls, inbox, seq_state, seq_inbox>>
agentVars == <<taken, answered>>
vars == <<serverVars, closed, emitted, result, lastOp, historyVars, concurrentVars,
          agentVars>>

\* ---------------------------------------------------------------- helpers
EmptyMap == [k \in {} |-> k]

\* HashMap::insert
MapInsert(m, k, v) == (k :> v) @@ m

\* HashMap::remove
MapRemove(m, k) == [x \in DOMAIN m \ {k} |-> m[x]]

\* Vec::contains
Contains(vec, x) == \E i \in 1..Len(vec) : vec[i] = x

\* how a call ends: NetResult Ok, NetResult Err, or a panic
Ok == "Ok"
ErrNoSender == "Err: No sender channel found"
ErrSend == "Err: SendError"
Panic == "Panic"

\* cat_dna_agent as it would be if the bucket were named after the agent alone
cat_dna_agent_of_agent(dna_address, agent_id) == "::" \o agent_id

\* format!("{}::{}", dna_address, agent_id)
cat_dna_agent(dna_address, agent_id) == dna_address \o "::" \o agent_id

\* ------------------------------------------------------ protocol messages
TrackDnaMsg(dna, agent) ==
    [type |-> "TrackDna", dna_address |-> dna, agent_id |-> agent]
PeerConnectedMsg(agent) ==
    [type |-> "PeerConnected", agent_id |-> agent]
GetListData(type, request_id, dna) ==
    [type |-> type, request_id |-> request_id, dna_address |-> dna]
EntryData(type, dna, provider, address, content) ==
    [type |-> type, dna_address |-> dna, provider_agent_id |-> provider,
     entry_address |-> address, entry_content |-> content]
FetchEntryData(type, requester, request_id, dna, address) ==
    [type |-> type, requester_agent_id |-> requester, request_id |-> request_id,
     dna_address |-> dna, entry_address |-> address]
FetchEntryResultData(type, request_id, requester, dna, provider, address, content) ==
    [type |-> type, request_id |-> request_id, requester_agent_id |-> requester,
     dna_address |-> dna, provider_agent_id |-> provider,
     entry_address |-> address, entry_content |-> content]
FailureResultData(request_id, dna, to_agent, error_info) ==
    [type |-> "FailureResult", request_id |-> request_id, dna_address |-> dna,
     to_agent_id |-> to_agent, error_info |-> error_info]
EntryListData(type, dna, request_id, list) ==
    [type |-> type, dna_address |-> dna, request_id |-> request_id,
     entry_address_list |-> list]

SuccessResultData(request_id, dna, to_agent, info) ==
    [type |-> "SuccessResult", request_id |-> request_id, dna_address |-> dna,
     to_agent_id |-> to_agent, success_info |-> info]
MessageData(type, request_id, dna, to_agent, from_agent, content) ==
    [type |-> type, request_id |-> request_id, dna_address |-> dna,
     to_agent_id |-> to_agent, from_agent_id |-> from_agent, content |-> content]

DhtMetaData(type, dna, provider, address, content, attribute) ==
    [type |-> type, dna_address |-> dna, provider_agent_id |-> provider,
     entry_address |-> address, content |-> content, attribute |-> attribute]
FetchMetaData(type, requester, request_id, dna, address, attribute) ==
    [type |-> type, requester_agent_id |-> requester, request_id |-> request_id,
     dna_address |-> dna, entry_address |-> address, attribute |-> attribute]
FetchMetaResultData(type, request_id, requester, dna, provider, address, attribute, content) ==
    [type |-> type, request_id |-> request_id, requester_agent_id |-> requester,
     dna_address |-> dna, provider_agent_id |-> provider,
     entry_address |-> address, attribute |-> attribute, content |-> content]
\* meta_list is a list of (data_address, attribute)
MetaListData(type, dna, request_id, list) ==
    [type |-> type, dna_address |-> dna, request_id |-> request_id,
     meta_list |-> list]

NoNodesError == "could not find nodes handling this dnaAddress"

\* ------------------------------------------------------ the server record
\* The server as a value: the fields of InMemoryServer, what the call in
\* progress has sent and how it stands, and the histories.
Cur ==
    [senders |-> senders, senders_by_dna |-> senders_by_dna,
     client_count |-> client_count,
     published_entry_book |-> published_entry_book,
     stored_entry_book |-> stored_entry_book,
     published_meta_book |-> published_meta_book,
     stored_meta_book |-> stored_meta_book,
     trackdna_book |-> trackdna_book,
     request_book |-> request_book, request_count |-> request_count,
     emitted |-> <<>>, result |-> Ok,
     issued |-> issued, peer_connected_sent |-> peer_connected_sent,
     lists_requested |-> lists_requested]

Install(s) ==
    /\ senders' = s.senders
    /\ senders_by_dna' = s.senders_by_dna
    /\ client_count' = s.client_count
    /\ published_entry_book' = s.published_entry_book
    /\ stored_entry_book' = s.stored_entry_book
    /\ published_meta_book' = s.published_meta_book
    /\ stored_meta_book' = s.stored_meta_book
    /\ trackdna_book' = s.trackdna_book
    /\ request_book' = s.request_book
    /\ request_count' = s.request_count
    /\ emitted' = s.emitted
    /\ result' = s.result
    /\ issued' = s.issued
    /\ peer_connected_sent' = s.peer_connected_sent
    /\ lists_requested' = s.lists_requested

\* HashMap::get(..).unwrap_or(0) + 1, for the histories
Bump(m, k) == MapInsert(m, k, IF k \in DOMAIN m THEN m[k] + 1 ELSE 1)
CountOf(m, k) == IF k \in DOMAIN m THEN m[k] ELSE 0

\* ------------------------------------------------------------ address books
\* Append the address to the bucket's list, creating the list if absent.
bookkeep_address_with_bucket(book, bucket_id, address) ==
    IF bucket_id \in DOMAIN book
    THEN [book EXCEPT ![bucket_id] = Append(@, address)]
    ELSE MapInsert(book, bucket_id, <<address>>)

bookkeep_address(book, dna_address, agent_id, address) ==
    bookkeep_address_with_bucket(book, cat_dna_agent(dna_address, agent_id), address)

\* book.get(&bucket_id) { Some(list) => list.clone(), None => Vec::new() }
KnownList(book, bucket_id) ==
    IF bucket_id \in DOMAIN book THEN book[bucket_id] ELSE <<>>

\* ----------------------------------------------------------- request ledger
RequestIdOf(n) == "req_" \o ToString(n)

\* priv_generate_request_id as it would be if the id were numbered by the
\* requests pending instead of by a counter of its own
priv_generate_request_id_by_pending(s) ==
    LET n == Cardinality(DOMAIN s.request_book) + 1
    IN [s EXCEPT !.request_count = @ + 1, !.issued = Append(@, RequestIdOf(n))]

\* self.request_count += 1; format!("req_{}", self.request_count)
priv_generate_request_id(s) ==
    LET n == s.request_count + 1
    IN [s EXCEPT !.request_count = n, !.issued = Append(@, RequestIdOf(n))]

\* the id the last priv_generate_request_id returned
LastRequestId(s) == s.issued[Len(s.issued)]

priv_create_request_with_bucket(s, bucket_id) ==
    LET g == priv_generate_request_id(s)
    IN [g EXCEPT !.request_book = MapInsert(@, LastRequestId(g), bucket_id)]

priv_create_request(s, dna_address, agent_id) ==
    priv_create_request_with_bucket(s, cat_dna_agent(dna_address, agent_id))

\* priv_drop_request as it would be if it only looked the id up
priv_drop_request_keeping(s, id) == s

priv_drop_request(s, id) == [s EXCEPT !.request_book = MapRemove(@, id)]

\* what priv_drop_request returns: whether the id was there
WasPending(s, id) == id \in DOMAIN s.request_book

\* ------------------------------------------------------------------- sends
\* mpsc::Sender::send: fails once the receiver has been dropped
SendFails(sink) == sink \in closed

Emit(s, sink, data) ==
    [s EXCEPT !.emitted = Append(@, [sink |-> sink, msg |-> data])]

\* the messages of `em` that went to `snk`, in order
SentTo(em, snk) ==
    LET to_snk == SelectSeq(em, LAMBDA x : x.sink = snk)
    IN [i \in 1..Len(to_snk) |-> to_snk[i].msg]

priv_send_one_with_bucket(s, bucket_id, data) ==
    IF bucket_id \notin DOMAIN s.senders
    THEN [s EXCEPT !.result = ErrNoSender]
    ELSE IF SendFails(s.senders[bucket_id])
         THEN [s EXCEPT !.result = ErrSend]
         ELSE Emit(s, s.senders[bucket_id], data)

priv_send_one(s, dna_address, to_agent_id, data) ==
    priv_send_one_with_bucket(s, cat_dna_agent(dna_address, to_agent_id), data)

\* for val in arr.iter_mut() { val.send(data.clone())?; }
RECURSIVE SendEach(_, _, _, _)
SendEach(s, arr, i, data) ==
    IF i > Len(arr) THEN s
    ELSE IF SendFails(arr[i]) THEN [s EXCEPT !.result = ErrSend]
    ELSE SendEach(Emit(s, arr[i], data), arr, i + 1, data)

\* priv_send_all as it would be if a failed send did not end the loop
priv_send_all_past_failures(s, dna_address, data) ==
    IF dna_address \in DOMAIN s.senders_by_dna
    THEN LET arr == s.senders_by_dna[dna_address]
             live == SelectSeq(arr, LAMBDA x : ~SendFails(x))
         IN [s EXCEPT !.emitted = @ \o [i \in 1..Len(live) |->
                                           [sink |-> live[i], msg |-> data]],
                      !.result = IF Len(live) < Len(arr) THEN ErrSend ELSE @]
    ELSE s

priv_send_all(s, dna_address, data) ==
    IF dna_address \in DOMAIN s.senders_by_dna
    THEN SendEach(s, s.senders_by_dna[dna_address], 1, data)
    ELSE s

\* ------------------------------------------------------------- membership
clock_in(s) == [s EXCEPT !.client_count = @ + 1]

\* clock_out as it would be if the last client leaving cleared only `senders`
clock_out_keeps_senders_by_dna(s) ==
    IF ~(s.client_count > 0) THEN [s EXCEPT !.result = Panic]
    ELSE IF s.client_count - 1 = 0
         THEN [s EXCEPT !.client_count = 0, !.senders = EmptyMap]
         ELSE [s EXCEPT !.client_count = @ - 1]

\* clock_out as it would be if the last client leaving cleared the server's
\* record of tracked DNAs along with the routing tables
clock_out_forgets_tracked(s) ==
    IF ~(s.client_count > 0) THEN [s EXCEPT !.result = Panic]
    ELSE IF s.client_count - 1 = 0
         THEN [s EXCEPT !.client_count = 0,
                        !.senders = EmptyMap,
                        !.senders_by_dna = EmptyMap,
                        !.trackdna_book = {}]
         ELSE [s EXCEPT !.client_count = @ - 1]

\* clock_out as it would be without the assertion on client_count
clock_out_unchecked(s) ==
    IF s.client_count - 1 = 0
    THEN [s EXCEPT !.client_count = 0,
                   !.senders = EmptyMap,
                   !.senders_by_dna = EmptyMap]
    ELSE [s EXCEPT !.client_count = @ - 1]

\* clock_out as it would be if the last client leaving also cleared the
\* requests in flight
clock_out_drops_requests(s) ==
    IF ~(s.client_count > 0) THEN [s EXCEPT !.result = Panic]
    ELSE IF s.client_count - 1 = 0
         THEN [s EXCEPT !.client_count = 0,
                        !.senders = EmptyMap,
                        !.senders_by_dna = EmptyMap,
                        !.request_book = EmptyMap]
         ELSE [s EXCEPT !.client_count = @ - 1]

\* assert!(client_count > 0); decrement; at zero clear both routing tables
clock_out(s) ==
    IF ~(s.client_count > 0) THEN [s EXCEPT !.result = Panic]
    ELSE IF s.client_count - 1 = 0
         THEN [s EXCEPT !.client_count = 0,
                        !.senders = EmptyMap,
                        !.senders_by_dna = EmptyMap]
         ELSE [s EXCEPT !.client_count = @ - 1]

\* register as it would be if a bucket registered again replaced its sink in
\* the per-DNA list instead of adding to it
register_replacing(s, dna_address, agent_id, sender) ==
    LET bucket_id == cat_dna_agent(dna_address, agent_id)
        arr == IF dna_address \in DOMAIN s.senders_by_dna
               THEN s.senders_by_dna[dna_address] ELSE <<>>
        kept == IF bucket_id \in DOMAIN s.senders
                THEN SelectSeq(arr, LAMBDA x : x # s.senders[bucket_id])
                ELSE arr
    IN [s EXCEPT
           !.senders = MapInsert(@, bucket_id, sender),
           !.senders_by_dna = MapInsert(@, dna_address, Append(kept, sender))]

register(s, dna_address, agent_id, sender) ==
    [s EXCEPT
        !.senders = MapInsert(@, cat_dna_agent(dna_address, agent_id), sender),
        !.senders_by_dna =
            IF dna_address \in DOMAIN @
            THEN [@ EXCEPT ![dna_address] = Append(@, sender)]
            ELSE MapInsert(@, dna_address, <<sender>>)]

\* --------------------------------------------------- reconciliation requests
ListRequestTypes ==
    <<"HandleGetPublishingEntryList", "HandleGetHoldingEntryList",
      "HandleGetPublishingMetaList", "HandleGetHoldingMetaList">>

\* let request_id = self.priv_create_request(..); self.priv_send_one(..).expect(..)
RequestList(s, dna_address, agent_id, type) ==
    LET c == priv_create_request(s, dna_address, agent_id)
        r == priv_send_one(c, dna_address, agent_id,
                           GetListData(type, LastRequestId(c), dna_address))
    IN IF r.result = Ok THEN r ELSE [r EXCEPT !.result = Panic]

RECURSIVE RequestLists(_, _, _, _)
RequestLists(s, dna_address, agent_id, i) ==
    IF i > Len(ListRequestTypes) THEN s
    ELSE LET r == RequestList(s, dna_address, agent_id, ListRequestTypes[i])
         IN IF r.result = Ok
            THEN RequestLists(r, dna_address, agent_id, i + 1)
            ELSE r

priv_request_lists(s, dna_address, agent_id) ==
    RequestLists([s EXCEPT !.lists_requested =
                      Bump(@, cat_dna_agent(dna_address, agent_id))],
                 dna_address, agent_id, 1)

\* ------------------------------------------------------------ serve: arms
\* the TrackDna arm as it would be if the lists were requested before the
\* peers are told of the new peer
serve_TrackDna_requests_first(s, msg) ==
    LET bucket_id == cat_dna_agent(msg.dna_address, msg.agent_id)
    IN IF bucket_id \in s.trackdna_book THEN s
       ELSE LET t == [s EXCEPT !.trackdna_book = @ \cup {bucket_id},
                               !.peer_connected_sent = Bump(@, bucket_id)]
                r == priv_request_lists(t, msg.dna_address, msg.agent_id)
            IN IF r.result = Ok
               THEN priv_send_all(r, msg.dna_address, PeerConnectedMsg(msg.agent_id))
               ELSE r

serve_TrackDna(s, msg) ==
    LET bucket_id == cat_dna_agent(msg.dna_address, msg.agent_id)
    IN IF bucket_id \in s.trackdna_book THEN s
       ELSE LET t == [s EXCEPT !.trackdna_book = @ \cup {bucket_id},
                               !.peer_connected_sent = Bump(@, bucket_id)]
                a == priv_send_all(t, msg.dna_address, PeerConnectedMsg(msg.agent_id))
            IN IF a.result = Ok
               THEN priv_request_lists(a, msg.dna_address, msg.agent_id)
               ELSE a

\* priv_serve_PublishDhtData as it would be if it fanned the entry out without
\* recording its address
priv_serve_PublishDhtData_unrecorded(s, msg) ==
    priv_send_all(s, msg.dna_address, [msg EXCEPT !.type = "HandleStoreEntry"])

priv_serve_PublishDhtData(s, msg) ==
    LET b == [s EXCEPT !.published_entry_book =
                  bookkeep_address(@, msg.dna_address, msg.provider_agent_id,
                                   msg.entry_address)]
    IN priv_send_all(b, msg.dna_address, [msg EXCEPT !.type = "HandleStoreEntry"])

\* priv_serve_FetchDhtData as it would be if the request were forwarded to the
\* latest sink registered on the DNA instead of the first
priv_serve_FetchDhtData_to_last(s, msg) ==
    IF /\ msg.dna_address \in DOMAIN s.senders_by_dna
       /\ s.senders_by_dna[msg.dna_address] # <<>>
    THEN LET arr == s.senders_by_dna[msg.dna_address]
             r == arr[Len(arr)]
         IN IF SendFails(r) THEN [s EXCEPT !.result = ErrSend]
            ELSE Emit(s, r, [msg EXCEPT !.type = "HandleFetchEntry"])
    ELSE priv_send_one(s, msg.dna_address, msg.requester_agent_id,
                       FailureResultData(msg.request_id, msg.dna_address,
                                         msg.requester_agent_id, NoNodesError))

priv_serve_FetchDhtData(s, msg) ==
    IF /\ msg.dna_address \in DOMAIN s.senders_by_dna
       /\ s.senders_by_dna[msg.dna_address] # <<>>
    THEN LET r == s.senders_by_dna[msg.dna_address][1]
         IN IF SendFails(r) THEN [s EXCEPT !.result = ErrSend]
            ELSE Emit(s, r, [msg EXCEPT !.type = "HandleFetchEntry"])
    ELSE priv_send_one(s, msg.dna_address, msg.requester_agent_id,
                       FailureResultData(msg.request_id, msg.dna_address,
                                         msg.requester_agent_id, NoNodesError))

\* priv_serve_HandleFetchDhtDataResult as it would be if the entry were
\* published in the name of the requester instead of the provider
priv_serve_HandleFetchDhtDataResult_as_requester(s, msg) ==
    IF WasPending(s, msg.request_id)
    THEN priv_serve_PublishDhtData(
             priv_drop_request(s, msg.request_id),
             EntryData("EntryData", msg.dna_address, msg.requester_agent_id,
                       msg.entry_address, msg.entry_content))
    ELSE priv_send_one(s, msg.dna_address, msg.requester_agent_id,
                       [msg EXCEPT !.type = "FetchEntryResult"])

\* priv_serve_HandleFetchDhtDataResult as it would be if a reply to a request
\* that is not the server's own were sent to the provider instead of the
\* requester
priv_serve_HandleFetchDhtDataResult_to_provider(s, msg) ==
    IF WasPending(s, msg.request_id)
    THEN priv_serve_PublishDhtData(
             priv_drop_request(s, msg.request_id),
             EntryData("EntryData", msg.dna_address, msg.provider_agent_id,
                       msg.entry_address, msg.entry_content))
    ELSE priv_send_one(s, msg.dna_address, msg.provider_agent_id,
                       [msg EXCEPT !.type = "FetchEntryResult"])

priv_serve_HandleFetchDhtDataResult(s, msg) ==
    IF WasPending(s, msg.request_id)
    THEN priv_serve_PublishDhtData(
             priv_drop_request(s, msg.request_id),
             EntryData("EntryData", msg.dna_address, msg.provider_agent_id,
                       msg.entry_address, msg.entry_content))
    ELSE priv_send_one(s, msg.dna_address, msg.requester_agent_id,
                       [msg EXCEPT !.type = "FetchEntryResult"])

\* priv_check_request: Some(bucket the id was issued for) as <<bucket>>, None
\* as <<>> (the request is dropped: see priv_drop_request at each use)
priv_check_request(s, request_id) ==
    IF request_id \in DOMAIN s.request_book
    THEN <<s.request_book[request_id]>>
    ELSE <<>>

\* for entry_address in msg.entry_address_list.clone() { .. }
RECURSIVE FetchUnknown(_, _, _, _, _)
FetchUnknown(s, msg, bucket_id, known_published_list, i) ==
    IF i > Len(msg.entry_address_list) THEN s
    ELSE IF Contains(known_published_list, msg.entry_address_list[i])
    THEN FetchUnknown(s, msg, bucket_id, known_published_list, i + 1)
    ELSE LET c == priv_create_request_with_bucket(s, bucket_id)
             r == priv_send_one_with_bucket(c, bucket_id,
                      FetchEntryData("HandleFetchEntry", "", LastRequestId(c),
                                     msg.dna_address, msg.entry_address_list[i]))
         IN IF r.result = Ok
            THEN FetchUnknown(r, msg, bucket_id, known_published_list, i + 1)
            ELSE r

\* priv_serve_HandleGetPublishingDataListResult as it would be if the list were
\* not compared with what the bucket has published
priv_serve_HandleGetPublishingDataListResult_fetching_all(s, msg) ==
    LET maybe_bucket_id == priv_check_request(s, msg.request_id)
    IN IF maybe_bucket_id = <<>> THEN [s EXCEPT !.result = Panic]
       ELSE FetchUnknown(priv_drop_request(s, msg.request_id), msg,
                         maybe_bucket_id[1], <<>>, 1)

priv_serve_HandleGetPublishingDataListResult(s, msg) ==
    LET maybe_bucket_id == priv_check_request(s, msg.request_id)
    IN IF maybe_bucket_id = <<>> THEN [s EXCEPT !.result = Panic]
       ELSE FetchUnknown(priv_drop_request(s, msg.request_id), msg,
                         maybe_bucket_id[1],
                         KnownList(s.published_entry_book, maybe_bucket_id[1]), 1)

\* for data_address in msg.entry_address_list.clone() { .. }
RECURSIVE StoreUnknown(_, _, _, _, _)
StoreUnknown(s, msg, bucket_id, known_stored_list, i) ==
    IF i > Len(msg.entry_address_list) THEN s
    ELSE IF Contains(known_stored_list, msg.entry_address_list[i])
    THEN StoreUnknown(s, msg, bucket_id, known_stored_list, i + 1)
    ELSE StoreUnknown(
             [s EXCEPT !.stored_entry_book =
                  bookkeep_address_with_bucket(@, bucket_id,
                                               msg.entry_address_list[i])],
             msg, bucket_id, known_stored_list, i + 1)

priv_serve_HandleGetHoldingDataListResult(s, msg) ==
    LET maybe_bucket_id == priv_check_request(s, msg.request_id)
    IN IF maybe_bucket_id = <<>> THEN [s EXCEPT !.result = Panic]
       ELSE StoreUnknown(priv_drop_request(s, msg.request_id), msg,
                         maybe_bucket_id[1],
                         KnownList(s.stored_entry_book, maybe_bucket_id[1]), 1)

\* ------------------------------------------------------ serve: DHT metadata
\* format!("{}||{}", data_address, attribute)
meta_to_address(data_address, attribute) == data_address \o "||" \o attribute

\* priv_serve_PublishDhtMeta as it would be if it recorded the address in
\* published_meta_book, the way priv_serve_PublishDhtData records entries
priv_serve_PublishDhtMeta_bookkeeping(s, msg) ==
    LET b == [s EXCEPT !.published_meta_book =
                  bookkeep_address(@, msg.dna_address, msg.provider_agent_id,
                                   msg.entry_address)]
    IN priv_send_all(b, msg.dna_address, [msg EXCEPT !.type = "HandleStoreMeta"])

\* on publish, we send store requests to all nodes connected on this dna
priv_serve_PublishDhtMeta(s, msg) ==
    priv_send_all(s, msg.dna_address, [msg EXCEPT !.type = "HandleStoreMeta"])

priv_serve_FetchDhtMeta(s, msg) ==
    IF /\ msg.dna_address \in DOMAIN s.senders_by_dna
       /\ s.senders_by_dna[msg.dna_address] # <<>>
    THEN LET r == s.senders_by_dna[msg.dna_address][1]
         IN IF SendFails(r) THEN [s EXCEPT !.result = ErrSend]
            ELSE Emit(s, r, [msg EXCEPT !.type = "HandleFetchMeta"])
    ELSE priv_send_one(s, msg.dna_address, msg.requester_agent_id,
                       FailureResultData(msg.request_id, msg.dna_address,
                                         msg.requester_agent_id, NoNodesError))

\* priv_serve_HandleFetchDhtMetaResult as it would be if a reply counted as the
\* answer to a request only when it came from the agent the request was made for
priv_serve_HandleFetchDhtMetaResult_from_owner(s, msg) ==
    IF /\ WasPending(s, msg.request_id)
       /\ s.request_book[msg.request_id] =
              cat_dna_agent(msg.dna_address, msg.provider_agent_id)
    THEN priv_serve_PublishDhtMeta(
             priv_drop_request(s, msg.request_id),
             DhtMetaData("DhtMetaData", msg.dna_address, msg.provider_agent_id,
                         msg.entry_address, msg.content, msg.attribute))
    ELSE priv_send_one(s, msg.dna_address, msg.requester_agent_id,
                       [msg EXCEPT !.type = "FetchMetaResult"])

priv_serve_HandleFetchDhtMetaResult(s, msg) ==
    IF WasPending(s, msg.request_id)
    THEN priv_serve_PublishDhtMeta(
             priv_drop_request(s, msg.request_id),
             DhtMetaData("DhtMetaData", msg.dna_address, msg.provider_agent_id,
                         msg.entry_address, msg.content, msg.attribute))
    ELSE priv_send_one(s, msg.dna_address, msg.requester_agent_id,
                       [msg EXCEPT !.type = "FetchMetaResult"])

\* for (data_address, attribute) in msg.meta_list.clone() { .. }
RECURSIVE FetchUnknownMeta(_, _, _, _, _)
FetchUnknownMeta(s, msg, bucket_id, known_published_list, i) ==
    IF i > Len(msg.meta_list) THEN s
    ELSE IF Contains(known_published_list, msg.meta_list[i][1])
    THEN FetchUnknownMeta(s, msg, bucket_id, known_published_list, i + 1)
    ELSE LET c == priv_create_request_with_bucket(s, bucket_id)
             r == priv_send_one_with_bucket(c, bucket_id,
                      FetchMetaData("HandleFetchMeta", "", LastRequestId(c),
                                    msg.dna_address, msg.meta_list[i][1],
                                    msg.meta_list[i][2]))
         IN IF r.result = Ok
            THEN FetchUnknownMeta(r, msg, bucket_id, known_published_list, i + 1)
            ELSE r

priv_serve_HandleGetPublishingMetaListResult(s, msg) ==
    LET maybe_bucket_id == priv_check_request(s, msg.request_id)
    IN IF maybe_bucket_id = <<>> THEN [s EXCEPT !.result = Panic]
       ELSE FetchUnknownMeta(priv_drop_request(s, msg.request_id), msg,
                             maybe_bucket_id[1],
                             KnownList(s.published_meta_book, maybe_bucket_id[1]), 1)

\* the list held is searched for the data address, and what is added to it is
\* the meta address
RECURSIVE StoreUnknownMeta(_, _, _, _, _)
StoreUnknownMeta(s, msg, bucket_id, known_stored_list, i) ==
    IF i > Len(msg.meta_list) THEN s
    ELSE IF Contains(known_stored_list, msg.meta_list[i][1])
    THEN StoreUnknownMeta(s, msg, bucket_id, known_stored_list, i + 1)
    ELSE StoreUnknownMeta(
             [s EXCEPT !.stored_meta_book =
                  bookkeep_address_with_bucket(@, bucket_id,
                      meta_to_address(msg.meta_list[i][1], msg.meta_list[i][2]))],
             msg, bucket_id, known_stored_list, i + 1)

priv_serve_HandleGetHoldingMetaListResult(s, msg) ==
    LET maybe_bucket_id == priv_check_request(s, msg.request_id)
    IN IF maybe_bucket_id = <<>> THEN [s EXCEPT !.result = Panic]
       ELSE StoreUnknownMeta(priv_drop_request(s, msg.request_id), msg,
                             maybe_bucket_id[1],
                             KnownList(s.stored_meta_book, maybe_bucket_id[1]), 1)

\* the SuccessResult arm as it would be if it checked the id against the
\* server's own requests, the way the FailureResult arm does
serve_SuccessResult_checked(s, msg) ==
    IF priv_check_request(s, msg.request_id) # <<>>
    THEN priv_drop_request(s, msg.request_id)
    ELSE priv_send_one(s, msg.dna_address, msg.to_agent_id, msg)

\* Relay directly the SuccessResult message
serve_SuccessResult(s, msg) ==
    priv_send_one(s, msg.dna_address, msg.to_agent_id, msg)

\* the FailureResult arm as it would be without the check against the server's
\* own requests
serve_FailureResult_relayed(s, msg) ==
    priv_send_one(s, msg.dna_address, msg.to_agent_id, msg)

\* a FailureResult to one of the server's own requests is swallowed; any other
\* is relayed
serve_FailureResult(s, msg) ==
    LET maybe_bucket_id == priv_check_request(s, msg.request_id)
    IN IF maybe_bucket_id # <<>>
       THEN priv_drop_request(s, msg.request_id)
       ELSE priv_send_one(s, msg.dna_address, msg.to_agent_id, msg)

priv_serve_SendMessage(s, msg) ==
    priv_send_one(s, msg.dna_address, msg.to_agent_id,
                  [msg EXCEPT !.type = "HandleSendMessage"])

priv_serve_HandleSendMessageResult(s, msg) ==
    priv_send_one(s, msg.dna_address, msg.to_agent_id,
                  [msg EXCEPT !.type = "SendMessageResult"])

\* match json_msg { .. }
serve(s, msg) ==
    CASE msg.type = "TrackDna" -> serve_TrackDna(s, msg)
      [] msg.type = "SuccessResult" -> serve_SuccessResult(s, msg)
      [] msg.type = "FailureResult" -> serve_FailureResult(s, msg)
      [] msg.type = "SendMessage" -> priv_serve_SendMessage(s, msg)
      [] msg.type = "HandleSendMessageResult" ->
             priv_serve_HandleSendMessageResult(s, msg)
      [] msg.type = "HandleGetHoldingEntryListResult" ->
             priv_serve_HandleGetHoldingDataListResult(s, msg)
      [] msg.type = "PublishEntry" -> priv_serve_PublishDhtData(s, msg)
      [] msg.type = "FetchEntry" -> priv_serve_FetchDhtData(s, msg)
      [] msg.type = "HandleFetchEntryResult" ->
             priv_serve_HandleFetchDhtDataResult(s, msg)
      [] msg.type = "HandleGetPublishingEntryListResult" ->
             priv_serve_HandleGetPublishingDataListResult(s, msg)
      [] msg.type = "FetchMeta" -> priv_serve_FetchDhtMeta(s, msg)
      [] msg.type = "HandleFetchMetaResult" ->
             priv_serve_HandleFetchDhtMetaResult(s, msg)
      [] msg.type = "PublishMeta" -> priv_serve_PublishDhtMeta(s, msg)
      [] msg.type = "HandleGetPublishingMetaListResult" ->
             priv_serve_HandleGetPublishingMetaListResult(s, msg)
      [] msg.type = "HandleGetHoldingMetaListResult" ->
             priv_serve_HandleGetHoldingMetaListResult(s, msg)
      [] OTHER -> s

\* ----------------------------------------------------------------- actions
\* InMemoryServer::new, as a server record
NewServer ==
    [senders |-> EmptyMap, senders_by_dna |-> EmptyMap, client_count |-> 0,
     published_entry_book |-> EmptyMap, stored_entry_book |-> EmptyMap,
     published_meta_book |-> EmptyMap, stored_meta_book |-> EmptyMap,
     trackdna_book |-> {}, request_book |-> EmptyMap, request_count |-> 0,
     emitted |-> <<>>, result |-> Ok,
     issued |-> <<>>, peer_connected_sent |-> EmptyMap,
     lists_requested |-> EmptyMap]

Init ==
    /\ senders = EmptyMap
    /\ senders_by_dna = EmptyMap
    /\ client_count = 0
    /\ published_entry_book = EmptyMap
    /\ stored_entry_book = EmptyMap
    /\ published_meta_book = EmptyMap
    /\ stored_meta_book = EmptyMap
    /\ trackdna_book = {}
    /\ request_book = EmptyMap
    /\ request_count = 0
    /\ closed = {}
    /\ emitted = <<>>
    /\ result = Ok
    /\ lastOp = [op |-> "new"]
    /\ issued = <<>>
    /\ peer_connected_sent = EmptyMap
    /\ lists_requested = EmptyMap
    /\ lock = NoClient
    /\ call = [c \in Clients |-> Idle]
    /\ calls = 0
    /\ inbox = [snk \in Sinks |-> <<>>]
    /\ seq_state = NewServer
    /\ seq_inbox = [snk \in Sinks |-> <<>>]
    /\ taken = [snk \in Sinks |-> 0]
    /\ answered = EmptyMap

\* entries of all the lists of a map
TotalLen(m) == Cardinality(UNION {{<<k, i>> : i \in 1..Len(m[k])} : k \in DOMAIN m})

\* A world: the clients' inputs and the part of the state space explored.
\* pairs are the (dna address, agent id) the clients use.
MembershipWorld ==
    [pairs |-> {<<"X", "a1">>, <<"X", "a2">>, <<"Y", "a1">>},
     sinks |-> {"A", "B"}, addresses |-> {"E1"}, requesters |-> {},
     max_clients |-> MaxClients, max_registered |-> MaxRegistered,
     max_requests |-> 0, max_published |-> MaxPublished,
     max_dropped |-> 0, max_list_len |-> 0,
     guessed |-> {}, max_stored |-> 0]

RoutingWorld ==
    [pairs |-> {<<"X", "a1">>, <<"X", "a2">>, <<"Y", "a1">>},
     sinks |-> {"A", "B"}, addresses |-> {"E1"}, requesters |-> {},
     max_clients |-> MaxFewClients, max_registered |-> MaxRoutingRegistered,
     max_requests |-> 0, max_published |-> MaxPublished,
     max_dropped |-> MaxDropped, max_list_len |-> 0,
     guessed |-> {}, max_stored |-> 0]

TrackWorld ==
    [pairs |-> {<<"X", "a1">>, <<"X", "a2">>, <<"Y", "a1">>},
     sinks |-> {"A", "B"}, addresses |-> {}, requesters |-> {},
     max_clients |-> MaxFewClients, max_registered |-> MaxTrackRegistered,
     max_requests |-> MaxTrackRequests, max_published |-> 0,
     max_dropped |-> MaxDropped, max_list_len |-> 0,
     guessed |-> {}, max_stored |-> 0]

LedgerWorld ==
    [pairs |-> {<<"X", "a1">>, <<"X", "a2">>},
     sinks |-> {"A", "B"}, addresses |-> {"E1"}, requesters |-> {"", "a1"},
     max_clients |-> MaxFewClients, max_registered |-> MaxLedgerRegistered,
     max_requests |-> MaxLedgerRequests, max_published |-> MaxLedgerPublished,
     max_dropped |-> 0, max_list_len |-> MaxListLen,
     guessed |-> {}, max_stored |-> 0]

\* guessed are request ids a client makes up in the server's own format
RelayWorld ==
    [pairs |-> {<<"X", "a1">>, <<"X", "a2">>},
     sinks |-> {"A", "B"}, addresses |-> {"E1"}, requesters |-> {"a1"},
     max_clients |-> MaxFewClients, max_registered |-> MaxRelayRegistered,
     max_requests |-> MaxRelayRequests, max_published |-> 0,
     max_dropped |-> MaxDropped, max_list_len |-> 0,
     guessed |-> {RequestIdOf(1)}, max_stored |-> 0]

\* replies name the agent that answers as provider; the server's own fetches
\* carry an empty requester
ReconcileWorld ==
    [pairs |-> {<<"X", "a1">>},
     sinks |-> {"A"}, addresses |-> {"E1", "E2"}, requesters |-> {""},
     max_clients |-> MaxFewClients, max_registered |-> MaxReconcileRegistered,
     max_requests |-> MaxReconcileRequests,
     max_published |-> MaxReconcilePublished,
     max_dropped |-> 0, max_list_len |-> MaxReconcileListLen,
     guessed |-> {RequestIdOf(1), RequestIdOf(5)},
     max_stored |-> 0]

BooksWorld ==
    [pairs |-> {<<"X", "a1">>},
     sinks |-> {"A"}, addresses |-> {"E1"}, requesters |-> {},
     max_clients |-> MaxFewClients, max_registered |-> MaxBooksRegistered,
     max_requests |-> MaxBooksRequests, max_published |-> MaxBooksPublished,
     max_dropped |-> 0, max_list_len |-> MaxBooksListLen,
     guessed |-> {}, max_stored |-> MaxBooksStored]

\* metadata: one agent, its lists of (data address, attribute)
MetaWorld ==
    [pairs |-> {<<"X", "a1">>},
     sinks |-> {"A"}, addresses |-> {"E1"}, requesters |-> {""},
     max_clients |-> MaxFewClients, max_registered |-> MaxMetaRegistered,
     max_requests |-> MaxMetaRequests, max_published |-> 0,
     max_dropped |-> MaxDropped, max_list_len |-> MaxMetaListLen,
     guessed |-> {}, max_stored |-> MaxMetaStored]

\* reconciliation with agents that answer: a1 is tracked, a2 only registers
CompleteWorld ==
    [pairs |-> {<<"X", "a1">>, <<"X", "a2">>},
     sinks |-> Sinks, addresses |-> {"E1", "E2"}, requesters |-> {""},
     max_clients |-> MaxFewClients, max_registered |-> MaxCompleteRegistered,
     max_requests |-> MaxCompleteRequests,
     max_published |-> MaxCompletePublished,
     max_dropped |-> 0, max_list_len |-> MaxCompleteListLen,
     guessed |-> {}, max_stored |-> 0]

\* every kind of message, with the ids of the server's requests, pending or
\* answered, in any of them
FrameWorld ==
    [pairs |-> {<<"X", "a1">>},
     sinks |-> {"A"}, addresses |-> {"E1"}, requesters |-> {""},
     max_clients |-> MaxFewClients, max_registered |-> MaxFrameRegistered,
     max_requests |-> MaxFrameRequests, max_published |-> MaxFramePublished,
     max_dropped |-> 0, max_list_len |-> MaxFrameListLen,
     guessed |-> {RequestIdOf(1)}, max_stored |-> MaxFrameStored]

\* one agent on two DNAs
ScopeWorld ==
    [pairs |-> {<<"X", "a1">>, <<"Y", "a1">>},
     sinks |-> Sinks, addresses |-> {"E1"}, requesters |-> {"a1"},
     max_clients |-> MaxFewClients, max_registered |-> MaxScopeRegistered,
     max_requests |-> MaxScopeRequests, max_published |-> MaxScopePublished,
     max_dropped |-> 0, max_list_len |-> MaxScopeListLen,
     guessed |-> {}, max_stored |-> 0]

\* two agents on one DNA, either of which may send any reply, with ids the
\* server issued earlier
ConsumeWorld ==
    [pairs |-> {<<"X", "a1">>, <<"X", "a2">>},
     sinks |-> {"A"}, addresses |-> {"E1"}, requesters |-> {"a1"},
     max_clients |-> MaxFewClients, max_registered |-> MaxConsumeRegistered,
     max_requests |-> MaxConsumeRequests, max_published |-> MaxConsumePublished,
     max_dropped |-> 0, max_list_len |-> MaxConsumeListLen,
     guessed |-> {RequestIdOf(1)}, max_stored |-> MaxConsumeStored]

ConcurrentWorld ==
    [pairs |-> {<<"X", "a1">>, <<"X", "a2">>},
     sinks |-> Sinks, addresses |-> {"E1"}, requesters |-> {},
     max_clients |-> MaxFewClients, max_registered |-> MaxConcurrentRegistered,
     max_requests |-> MaxConcurrentRequests,
     max_published |-> MaxConcurrentPublished,
     max_dropped |-> 0, max_list_len |-> 0,
     guessed |-> {}, max_stored |-> 0]

DnasOf(W) == {p[1] : p \in W.pairs}

WithinBounds(W, s) ==
    /\ s.client_count <= W.max_clients
    /\ s.request_count <= W.max_requests
    /\ TotalLen(s.senders_by_dna) <= W.max_registered
    /\ TotalLen(s.published_entry_book) <= W.max_published
    /\ TotalLen(s.stored_entry_book) <= W.max_stored
    /\ TotalLen(s.stored_meta_book) <= W.max_stored

\* a panic inside a method poisons the server's Mutex: no later call gets in
Alive == result # Panic

\* a call that takes the server from Cur to s
Call(W, op, s) ==
    /\ WithinBounds(W, s)
    /\ Install(s)
    /\ lastOp' = op
    /\ UNCHANGED <<closed, concurrentVars, agentVars>>

ClockIn(W) == Alive /\ Call(W, [op |-> "clock_in"], clock_in(Cur))

ClockOut(W) == Alive /\ Call(W, [op |-> "clock_out"], clock_out(Cur))

Register(W) ==
    \E p \in W.pairs, snk \in W.sinks :
        /\ Alive
        /\ Call(W, [op |-> "register", dna_address |-> p[1], agent_id |-> p[2],
                    sender |-> snk],
                register(Cur, p[1], p[2], snk))

\* the client drops the receiving end of its channel
DropReceiver(W) ==
    \E snk \in W.sinks \ closed :
        /\ Alive
        /\ Cardinality(closed) < W.max_dropped
        /\ closed' = closed \cup {snk}
        /\ lastOp' = [op |-> "drop_receiver", sender |-> snk]
        /\ emitted' = <<>>
        /\ result' = Ok
        /\ UNCHANGED <<serverVars, historyVars, concurrentVars, agentVars>>

Serve(W, msg) == Call(W, [op |-> "serve", msg |-> msg], serve(Cur, msg))

PendingOrExternal == DOMAIN request_book \cup {ExternalRequestId}

\* the request ids a client may put in a message
RequestIds(W) == PendingOrExternal \cup W.guessed

AddressLists(W) == UNION {[1..n -> W.addresses] : n \in 0..W.max_list_len}

ServeTrackDna(W) ==
    \E p \in W.pairs : Alive /\ Serve(W, TrackDnaMsg(p[1], p[2]))

ServePublishEntry(W) ==
    \E p \in W.pairs, e \in W.addresses, c \in Contents :
        Alive /\ Serve(W, EntryData("PublishEntry", p[1], p[2], e, c))

ServeFetchEntry(W) ==
    \E p \in W.pairs, e \in W.addresses :
        Alive /\ Serve(W, FetchEntryData("FetchEntry", p[2], ExternalRequestId, p[1], e))

ServeHandleFetchEntryResult(W) ==
    \E id \in RequestIds(W), p \in W.pairs, req \in W.requesters,
       e \in W.addresses, c \in Contents :
        Alive /\ Serve(W, FetchEntryResultData("HandleFetchEntryResult", id, req,
                                               p[1], p[2], e, c))

\* a list reply whose id is not pending panics before its list is read: the
\* empty list stands for all lists there
ServeHandleGetPublishingEntryListResult(W) ==
    \E id \in RequestIds(W), d \in DnasOf(W), l \in AddressLists(W) :
        /\ Alive
        /\ id \in DOMAIN request_book \/ l = <<>>
        /\ Serve(W, EntryListData("HandleGetPublishingEntryListResult", d, id, l))

ServeHandleGetHoldingEntryListResult(W) ==
    \E id \in RequestIds(W), d \in DnasOf(W), l \in AddressLists(W) :
        /\ Alive
        /\ id \in DOMAIN request_book \/ l = <<>>
        /\ Serve(W, EntryListData("HandleGetHoldingEntryListResult", d, id, l))

ServeSuccessResult(W) ==
    \E p \in W.pairs :
        Alive /\ Serve(W, SuccessResultData(ExternalRequestId, p[1], p[2], "ok"))

ServeFailureResult(W) ==
    \E id \in RequestIds(W), p \in W.pairs :
        Alive /\ Serve(W, FailureResultData(id, p[1], p[2], "failed"))

ServeSendMessage(W) ==
    \E p \in W.pairs, c \in Contents :
        Alive /\ Serve(W, MessageData("SendMessage", ExternalRequestId, p[1], p[2],
                                      "a1", c))

ServeHandleSendMessageResult(W) ==
    \E p \in W.pairs, c \in Contents :
        Alive /\ Serve(W, MessageData("HandleSendMessageResult", ExternalRequestId,
                                      p[1], p[2], "a1", c))

MetaLists(W) ==
    UNION {[1..n -> W.addresses \X Attributes] : n \in 0..W.max_list_len}

ServePublishMeta(W) ==
    \E p \in W.pairs, e \in W.addresses, a \in Attributes, c \in Contents :
        Alive /\ Serve(W, DhtMetaData("PublishMeta", p[1], p[2], e, c, a))

ServeFetchMeta(W) ==
    \E p \in W.pairs, e \in W.addresses, a \in Attributes :
        Alive /\ Serve(W, FetchMetaData("FetchMeta", p[2], ExternalRequestId,
                                        p[1], e, a))

ServeHandleFetchMetaResult(W) ==
    \E id \in RequestIds(W), p \in W.pairs, req \in W.requesters,
       e \in W.addresses, a \in Attributes, c \in Contents :
        Alive /\ Serve(W, FetchMetaResultData("HandleFetchMetaResult", id, req,
                                              p[1], p[2], e, a, c))

ServeHandleGetPublishingMetaListResult(W) ==
    \E id \in RequestIds(W), d \in DnasOf(W), l \in MetaLists(W) :
        /\ Alive
        /\ id \in DOMAIN request_book \/ l = <<>>
        /\ Serve(W, MetaListData("HandleGetPublishingMetaListResult", d, id, l))

ServeHandleGetHoldingMetaListResult(W) ==
    \E id \in RequestIds(W), d \in DnasOf(W), l \in MetaLists(W) :
        /\ Alive
        /\ id \in DOMAIN request_book \/ l = <<>>
        /\ Serve(W, MetaListData("HandleGetHoldingMetaListResult", d, id, l))

\* a message that is no reply to a request, carrying the id of a request of
\* the server that is pending
ServeNamingPending(W) ==
    \E id \in DOMAIN request_book, p \in W.pairs, e \in W.addresses,
       a \in Attributes, c \in Contents :
        \E msg \in {SuccessResultData(id, p[1], p[2], "ok"),
                    MessageData("SendMessage", id, p[1], p[2], "a1", c),
                    MessageData("HandleSendMessageResult", id, p[1], p[2], "a1", c),
                    FetchEntryData("FetchEntry", p[2], id, p[1], e),
                    FetchMetaData("FetchMeta", p[2], id, p[1], e, a)} :
            Alive /\ Serve(W, msg)

\* multicast and fetch
Next ==
    \/ ClockIn(RoutingWorld)
    \/ ClockOut(RoutingWorld)
    \/ Register(RoutingWorld)
    \/ DropReceiver(RoutingWorld)
    \/ ServePublishEntry(RoutingWorld)
    \/ ServeFetchEntry(RoutingWorld)

Spec == Init /\ [][Next]_vars

\* client membership
NextMembership ==
    \/ ClockIn(MembershipWorld)
    \/ ClockOut(MembershipWorld)
    \/ Register(MembershipWorld)
    \/ ServePublishEntry(MembershipWorld)

SpecMembership == Init /\ [][NextMembership]_vars

\* the track handshake
NextTrack ==
    \/ ClockIn(TrackWorld)
    \/ ClockOut(TrackWorld)
    \/ Register(TrackWorld)
    \/ DropReceiver(TrackWorld)
    \/ ServeTrackDna(TrackWorld)

SpecTrack == Init /\ [][NextTrack]_vars

\* reconciliation: replies to the server's own requests
NextLedger ==
    \/ ClockIn(LedgerWorld)
    \/ ClockOut(LedgerWorld)
    \/ Register(LedgerWorld)
    \/ ServeTrackDna(LedgerWorld)
    \/ ServePublishEntry(LedgerWorld)
    \/ ServeHandleFetchEntryResult(LedgerWorld)
    \/ ServeHandleGetPublishingEntryListResult(LedgerWorld)

SpecLedger == Init /\ [][NextLedger]_vars

\* relays: unicasts to buckets with and without a sink
NextRelay ==
    \/ ClockIn(RelayWorld)
    \/ ClockOut(RelayWorld)
    \/ Register(RelayWorld)
    \/ DropReceiver(RelayWorld)
    \/ ServeTrackDna(RelayWorld)
    \/ ServeSuccessResult(RelayWorld)
    \/ ServeFailureResult(RelayWorld)
    \/ ServeSendMessage(RelayWorld)
    \/ ServeHandleSendMessageResult(RelayWorld)
    \/ ServeHandleFetchEntryResult(RelayWorld)
    \/ ServeFetchEntry(RelayWorld)

SpecRelay == Init /\ [][NextRelay]_vars

\* reconciliation with arbitrary replies
NextReconcile ==
    \/ ClockIn(ReconcileWorld)
    \/ ClockOut(ReconcileWorld)
    \/ Register(ReconcileWorld)
    \/ ServeTrackDna(ReconcileWorld)
    \/ ServePublishEntry(ReconcileWorld)
    \/ ServeFailureResult(ReconcileWorld)
    \/ ServeHandleFetchEntryResult(ReconcileWorld)
    \/ ServeHandleGetPublishingEntryListResult(ReconcileWorld)

SpecReconcile == Init /\ [][NextReconcile]_vars

\* the books under publishes and list replies
NextBooks ==
    \/ ClockIn(BooksWorld)
    \/ ClockOut(BooksWorld)
    \/ Register(BooksWorld)
    \/ ServeTrackDna(BooksWorld)
    \/ ServePublishEntry(BooksWorld)
    \/ ServeFailureResult(BooksWorld)
    \/ ServeHandleGetHoldingEntryListResult(BooksWorld)

SpecBooks == Init /\ [][NextBooks]_vars

\* metadata: publishes, fetches and the replies to the server's own requests
NextMeta ==
    \/ ClockIn(MetaWorld)
    \/ ClockOut(MetaWorld)
    \/ Register(MetaWorld)
    \/ DropReceiver(MetaWorld)
    \/ ServeTrackDna(MetaWorld)
    \/ ServePublishMeta(MetaWorld)
    \/ ServeFetchMeta(MetaWorld)
    \/ ServeHandleFetchMetaResult(MetaWorld)
    \/ ServeHandleGetPublishingMetaListResult(MetaWorld)
    \/ ServeHandleGetHoldingMetaListResult(MetaWorld)

SpecMeta == Init /\ [][NextMeta]_vars

\* the ledger under every operation
NextFrame ==
    \/ ClockIn(FrameWorld)
    \/ ClockOut(FrameWorld)
    \/ Register(FrameWorld)
    \/ ServeTrackDna(FrameWorld)
    \/ ServePublishEntry(FrameWorld)
    \/ ServePublishMeta(FrameWorld)
    \/ ServeFetchEntry(FrameWorld)
    \/ ServeFetchMeta(FrameWorld)
    \/ ServeSendMessage(FrameWorld)
    \/ ServeSuccessResult(FrameWorld)
    \/ ServeNamingPending(FrameWorld)
    \/ ServeFailureResult(FrameWorld)
    \/ ServeHandleFetchEntryResult(FrameWorld)
    \/ ServeHandleFetchMetaResult(FrameWorld)
    \/ ServeHandleGetPublishingEntryListResult(FrameWorld)
    \/ ServeHandleGetHoldingEntryListResult(FrameWorld)
    \/ ServeHandleGetPublishingMetaListResult(FrameWorld)
    \/ ServeHandleGetHoldingMetaListResult(FrameWorld)

SpecFrame == Init /\ [][NextFrame]_vars

\* requests and every kind of reply to them
NextConsume ==
    \/ Register(ConsumeWorld)
    \/ ServeTrackDna(ConsumeWorld)
    \/ ServeFailureResult(ConsumeWorld)
    \/ ServeHandleFetchEntryResult(ConsumeWorld)
    \/ ServeHandleFetchMetaResult(ConsumeWorld)
    \/ ServeHandleGetPublishingEntryListResult(ConsumeWorld)
    \/ ServeHandleGetHoldingEntryListResult(ConsumeWorld)
    \/ ServeHandleGetPublishingMetaListResult(ConsumeWorld)
    \/ ServeHandleGetHoldingMetaListResult(ConsumeWorld)

SpecConsume == Init /\ [][NextConsume]_vars

\* routing with two DNAs
NextScope ==
    \/ ClockIn(ScopeWorld)
    \/ ClockOut(ScopeWorld)
    \/ Register(ScopeWorld)
    \/ ServeTrackDna(ScopeWorld)
    \/ ServePublishEntry(ScopeWorld)
    \/ ServeFetchEntry(ScopeWorld)
    \/ ServeSendMessage(ScopeWorld)
    \/ ServeHandleFetchEntryResult(ScopeWorld)
    \/ ServeHandleGetPublishingEntryListResult(ScopeWorld)

SpecScope == Init /\ [][NextScope]_vars

\* ------------------------------------------------- calls made in parallel
\* A client thread locks the server's Mutex, runs one public method on the
\* server (which sends into the sinks' channels as it goes) and unlocks.
\* the method a call runs
Apply(op, s) ==
    CASE op.op = "clock_in" -> clock_in(s)
      [] op.op = "clock_out" -> clock_out(s)
      [] op.op = "register" -> register(s, op.dna_address, op.agent_id, op.sender)
      [] op.op = "serve" -> serve(s, op.msg)

\* the messages of em, in order, as they arrive in the channels: each at the
\* end of its sink's channel, marked with the call and the client they are of
Deliver(box, n, c, em) ==
    [snk \in Sinks |->
        box[snk] \o [i \in 1..Len(SentTo(em, snk)) |->
                        [call |-> n, client |-> c, msg |-> SentTo(em, snk)[i]]]]

\* Mutex::lock as it would be if it did not wait for the holder to unlock
CanLock_unguarded(c) == TRUE

\* Mutex::lock returns once no other thread holds the Mutex
CanLock(c) == lock = NoClient

\* client c locks the server and enters the method
Begin(W, c, op) ==
    LET s == Apply(op, Cur)
        q == Apply(op, [seq_state EXCEPT !.emitted = <<>>, !.result = Ok])
    IN /\ call[c] = Idle
       /\ CanLock(c)
       /\ calls < MaxCalls
       /\ WithinBounds(W, s)
       /\ lock' = c
       /\ calls' = calls + 1
       /\ call' = [call EXCEPT ![c] = [state |-> "busy", op |-> op, s |-> s,
                                       sent |-> 0, n |-> calls + 1]]
       /\ seq_state' = q
       /\ seq_inbox' = Deliver(seq_inbox, calls + 1, c, q.emitted)
       /\ UNCHANGED <<serverVars, closed, emitted, result, lastOp, historyVars,
                      inbox, agentVars>>

BeginClockIn(W) == \E c \in Clients : Alive /\ Begin(W, c, [op |-> "clock_in"])

BeginClockOut(W) == \E c \in Clients : Alive /\ Begin(W, c, [op |-> "clock_out"])

BeginRegister(W) ==
    \E c \in Clients, p \in W.pairs, snk \in W.sinks :
        Alive /\ Begin(W, c, [op |-> "register", dna_address |-> p[1],
                               agent_id |-> p[2], sender |-> snk])

BeginServeTrackDna(W) ==
    \E c \in Clients, p \in W.pairs :
        Alive /\ Begin(W, c, [op |-> "serve", msg |-> TrackDnaMsg(p[1], p[2])])

BeginServePublishEntry(W) ==
    \E c \in Clients, p \in W.pairs, e \in W.addresses, d \in Contents :
        Alive /\ Begin(W, c, [op |-> "serve",
                               msg |-> EntryData("PublishEntry", p[1], p[2], e, d)])

\* sender.send(data): the next message of the call goes into its channel
SendNext ==
    \E c \in Clients :
        /\ call[c] # Idle
        /\ call[c].sent < Len(call[c].s.emitted)
        /\ LET m == call[c].s.emitted[call[c].sent + 1]
           IN inbox' = [inbox EXCEPT ![m.sink] =
                           Append(@, [call |-> call[c].n, client |-> c,
                                      msg |-> m.msg])]
        /\ call' = [call EXCEPT ![c].sent = @ + 1]
        /\ UNCHANGED <<serverVars, closed, emitted, result, lastOp, historyVars,
                       lock, calls, seq_state, seq_inbox, agentVars>>

\* the method returns and the guard is dropped (after a panic the Mutex stays
\* poisoned)
Return ==
    \E c \in Clients :
        /\ call[c] # Idle
        /\ call[c].sent = Len(call[c].s.emitted)
        /\ Install(call[c].s)
        /\ lastOp' = call[c].op
        /\ call' = [call EXCEPT ![c] = Idle]
        /\ lock' = IF call[c].s.result = Panic THEN lock ELSE NoClient
        /\ UNCHANGED <<closed, calls, inbox, seq_state, seq_inbox, agentVars>>

NextConcurrent ==
    \/ BeginClockIn(ConcurrentWorld)
    \/ BeginClockOut(ConcurrentWorld)
    \/ BeginRegister(ConcurrentWorld)
    \/ BeginServeTrackDna(ConcurrentWorld)
    \/ BeginServePublishEntry(ConcurrentWorld)
    \/ SendNext
    \/ Return

SpecConcurrent == Init /\ [][NextConcurrent]_vars

\* ------------------------------------------------- agents that answer
\* each agent has a channel of its own
SinkOf(agent) == IF agent = "a1" THEN "A" ELSE "B"
AgentOf(snk) == IF snk = "A" THEN "a1" ELSE "a2"

\* an agent calls the server; what the call sends arrives in the channels
Enter(W, agent, op) ==
    LET s == Apply(op, Cur)
    IN /\ WithinBounds(W, s)
       /\ Install(s)
       /\ lastOp' = op
       /\ inbox' = Deliver(inbox, calls, agent, s.emitted)
       /\ UNCHANGED <<closed, lock, call, calls, seq_state, seq_inbox, agentVars>>

AgentClockIn(W) == Alive /\ Enter(W, "a1", [op |-> "clock_in"])

AgentRegister(W) ==
    \E p \in W.pairs :
        Alive /\ Enter(W, p[2], [op |-> "register", dna_address |-> p[1],
                                  agent_id |-> p[2], sender |-> SinkOf(p[2])])

AgentTrackDna(W) ==
    Alive /\ Enter(W, "a1", [op |-> "serve", msg |-> TrackDnaMsg("X", "a1")])

AgentPublishEntry(W) ==
    \E e \in W.addresses :
        Alive /\ Enter(W, "a1", [op |-> "serve",
                                  msg |-> EntryData("PublishEntry", "X", "a1", e, "hi")])

\* the requests an agent answers; any other message it takes and does not
\* answer
Answered == {"HandleGetPublishingEntryList", "HandleFetchEntry"}

\* where in its channel the next request is that the agent of snk has not
\* taken yet, as <<index>>
NextIndex(snk) ==
    LET waiting == {i \in (taken[snk] + 1)..Len(inbox[snk]) :
                       inbox[snk][i].msg.type \in Answered}
    IN IF waiting = {} THEN <<>>
       ELSE <<CHOOSE i \in waiting : \A j \in waiting : i <= j>>

\* that request, as <<msg>>
NextFor(snk) ==
    IF NextIndex(snk) = <<>> THEN <<>>
    ELSE <<inbox[snk][NextIndex(snk)[1]].msg>>

\* the agent of snk takes its next request and answers it with msg; the call
\* takes the server to s
Reply(snk, msg, s) ==
    /\ Install(s)
    /\ lastOp' = [op |-> "serve", msg |-> msg]
    /\ inbox' = Deliver(inbox, calls, AgentOf(snk), s.emitted)
    /\ taken' = [taken EXCEPT ![snk] = NextIndex(snk)[1]]
    /\ UNCHANGED <<closed, lock, call, calls, seq_state, seq_inbox>>

\* the ids of the fetches among the messages sent, and their addresses
FetchIds(em) ==
    {em[i].msg.request_id : i \in {j \in 1..Len(em) : em[j].msg.type = "HandleFetchEntry"}}
FetchedAddresses(em) ==
    {em[i].msg.entry_address : i \in {j \in 1..Len(em) : em[j].msg.type = "HandleFetchEntry"}}

\* the agent answers HandleGetPublishingEntryList with a list of its choice
AgentAnswersPublishingList(W, snk) ==
    /\ Alive
    /\ NextFor(snk) # <<>>
    /\ NextFor(snk)[1].type = "HandleGetPublishingEntryList"
    /\ \E l \in AddressLists(W), m \in {NextFor(snk)[1]} :
          \E a \in {EntryListData("HandleGetPublishingEntryListResult",
                                  m.dna_address, m.request_id, l)} :
             \E s \in {serve(Cur, a)} :
                /\ Reply(snk, a, s)
                /\ answered' = MapInsert(answered,
                                   cat_dna_agent(m.dna_address, AgentOf(snk)),
                                   [list |-> l,
                                    dna_address |-> m.dna_address,
                                    ids |-> {m.request_id} \cup FetchIds(s.emitted),
                                    fetched |-> FetchedAddresses(s.emitted),
                                    sinks |-> {senders_by_dna[m.dna_address][i] :
                                                 i \in 1..Len(senders_by_dna[m.dna_address])}])

\* the agent answers HandleFetchEntry with the entry, under the same request
\* id and as its provider
AgentAnswersFetch(snk) ==
    /\ Alive
    /\ NextFor(snk) # <<>>
    /\ NextFor(snk)[1].type = "HandleFetchEntry"
    /\ \E m \in {NextFor(snk)[1]} :
          \E a \in {FetchEntryResultData("HandleFetchEntryResult", m.request_id,
                                         m.requester_agent_id, m.dna_address,
                                         AgentOf(snk), m.entry_address, "hi")} :
             \E s \in {serve(Cur, a)} : Reply(snk, a, s)
    /\ UNCHANGED answered

NextComplete ==
    \/ AgentClockIn(CompleteWorld)
    \/ AgentRegister(CompleteWorld)
    \/ AgentTrackDna(CompleteWorld)
    \/ AgentPublishEntry(CompleteWorld)
    \/ \E snk \in Sinks : AgentAnswersPublishingList(CompleteWorld, snk)
    \/ \E snk \in Sinks : AgentAnswersFetch(snk)

\* every agent goes on answering the requests in its channel, and no client
\* clocks out or drops its receiver
FairComplete ==
    \A snk \in Sinks :
        /\ WF_vars(AgentAnswersPublishingList(CompleteWorld, snk))
        /\ WF_vars(AgentAnswersFetch(snk))

SpecComplete == Init /\ [][NextComplete]_vars /\ FairComplete

\* ================================================================== claims
IsServe(op, type) == op.op = "serve" /\ op.msg.type = type

Occurrences(seq, x) == Cardinality({i \in 1..Len(seq) : seq[i] = x})

HasSinks(by_dna, dna) == dna \in DOMAIN by_dna /\ by_dna[dna] # <<>>

\* ---- C7 (SpecMembership)
\* C7: a clock_out that brings client_count to zero leaves senders and
\* senders_by_dna empty; a clock_out that leaves client_count above zero
\* changes neither table.
C7_ClockOutClearsAtZeroOnly ==
    [][(lastOp'.op = "clock_out" /\ result' = Ok) =>
          /\ client_count' = client_count - 1
          /\ IF client_count' = 0
             THEN senders' = EmptyMap /\ senders_by_dna' = EmptyMap
             ELSE senders' = senders /\ senders_by_dna' = senders_by_dna]_vars

\* the last client has clocked out of a server whose books are not empty
C7_Witness ==
    /\ lastOp.op = "clock_out"
    /\ result = Ok
    /\ client_count = 0
    /\ senders = EmptyMap
    /\ senders_by_dna = EmptyMap
    /\ published_entry_book # EmptyMap

\* ---- C8 (SpecMembership)
\* C8: for every (bucket, sink) of senders, the sink appears exactly once in
\* senders_by_dna[dna of the bucket].
C8_SinkOncePerDna ==
    \A p \in MembershipWorld.pairs :
        LET bucket_id == cat_dna_agent(p[1], p[2])
        IN bucket_id \in DOMAIN senders =>
              /\ p[1] \in DOMAIN senders_by_dna
              /\ Occurrences(senders_by_dna[p[1]], senders[bucket_id]) = 1

\* ---- C9 (SpecMembership)
\* C9: whenever client_count is zero, senders and senders_by_dna are empty.
C9_NoClientsNoRoutes ==
    client_count = 0 => senders = EmptyMap /\ senders_by_dna = EmptyMap

\* ---- C1 (Spec)
\* C1: after a PublishEntry(e) that serve handled successfully, every sink
\* registered on e.dna has received exactly one HandleStoreEntry(e) from the
\* call, every other sink none, and e.entry_address is in
\* published_entry_book[bucket(e.dna, e.provider_agent)].
C1_PublishDeliversOncePerSink ==
    (IsServe(lastOp, "PublishEntry") /\ result = Ok) =>
        LET e == lastOp.msg
            store == [e EXCEPT !.type = "HandleStoreEntry"]
            on_dna == IF e.dna_address \in DOMAIN senders_by_dna
                      THEN {senders_by_dna[e.dna_address][i] :
                                i \in 1..Len(senders_by_dna[e.dna_address])}
                      ELSE {}
        IN /\ \A snk \in RoutingWorld.sinks :
                  SentTo(emitted, snk) = IF snk \in on_dna THEN <<store>> ELSE <<>>
           /\ Contains(KnownList(published_entry_book,
                                 cat_dna_agent(e.dna_address, e.provider_agent_id)),
                       e.entry_address)

\* ---- C2 (Spec)
\* C2: after a FetchEntry(f) served while no sink exists on f.dna, serve has
\* returned Ok and exactly one message was sent: the FailureResult for
\* f.request_id, to the sink of (f.dna, f.requester_agent_id).
C2_FetchWithoutSinksSendsFailure ==
    (IsServe(lastOp, "FetchEntry")
        /\ ~HasSinks(senders_by_dna, lastOp.msg.dna_address)) =>
        LET f == lastOp.msg
            bucket_id == cat_dna_agent(f.dna_address, f.requester_agent_id)
        IN /\ result = Ok
           /\ bucket_id \in DOMAIN senders
           /\ emitted = <<[sink |-> senders[bucket_id],
                           msg |-> FailureResultData(f.request_id, f.dna_address,
                                                     f.requester_agent_id,
                                                     NoNodesError)]>>

\* ---- C3 (SpecTrack)
\* C3: over the server's lifetime each (dna, agent) gets at most one
\* PeerConnected multicast and at most one batch of reconciliation requests
\* (trackdna_book never loses a bucket, and only a TrackDna for a bucket not in
\* it emits anything); a TrackDna for a bucket already in trackdna_book emits
\* nothing, creates no request and returns Ok.
C3_TrackAtMostOnce ==
    [][/\ trackdna_book \subseteq trackdna_book'
       /\ \A p \in TrackWorld.pairs :
            LET bucket_id == cat_dna_agent(p[1], p[2])
            IN /\ CountOf(peer_connected_sent', bucket_id) <= 1
               /\ CountOf(lists_requested', bucket_id) <= 1
               /\ (lastOp' = [op |-> "serve", msg |-> TrackDnaMsg(p[1], p[2])]
                       /\ bucket_id \in trackdna_book) =>
                     /\ emitted' = <<>>
                     /\ result' = Ok
                     /\ request_count' = request_count
                     /\ request_book' = request_book
                     /\ issued' = issued]_vars

\* a second TrackDna for a registered agent whose handshake was made: nothing
\* is sent
C3_Witness ==
    /\ IsServe(lastOp, "TrackDna")
    /\ LET bucket_id == cat_dna_agent(lastOp.msg.dna_address, lastOp.msg.agent_id)
       IN /\ bucket_id \in DOMAIN senders
          /\ senders[bucket_id] \notin closed
          /\ CountOf(lists_requested, bucket_id) = 1
    /\ emitted = <<>>
    /\ result = Ok

\* ---- C4 (SpecTrack)
\* What the agent's sink has seen of a handshake: PeerConnected(agent) (once
\* per entry the sink has in senders_by_dna[dna]), then the four list requests
\* in order, carrying the four ids that follow `count`, each of them mapped to
\* the agent's bucket in `book`.
HandshakeObserved(dna, agent, got, count, book) ==
    LET n == Len(got)
        types == <<"HandleGetPublishingEntryList", "HandleGetHoldingEntryList",
                   "HandleGetPublishingMetaList", "HandleGetHoldingMetaList">>
    IN /\ n >= 5
       /\ \A i \in 1..(n - 4) : got[i] = PeerConnectedMsg(agent)
       /\ \A i \in 1..4 :
            LET id == "req_" \o ToString(count + i)
            IN /\ got[n - 4 + i] = [type |-> types[i], request_id |-> id,
                                    dna_address |-> dna]
               /\ id \in DOMAIN book
               /\ book[id] = cat_dna_agent(dna, agent)

C10_TrackedIffHandshaken ==
    result # Panic =>
        \A p \in TrackWorld.pairs :
            LET bucket_id == cat_dna_agent(p[1], p[2])
            IN bucket_id \in trackdna_book <=> CountOf(lists_requested, bucket_id) > 0

\* ---- C5 (SpecLedger)
\* C5: serving HandleFetchEntryResult(r) with r.request_id in request_book does
\* what serving PublishEntry with r's dna, provider, entry address and content
\* does from the same state (same messages to the same sinks, same result,
\* same routing tables and books), except that r.request_id leaves
\* request_book; no FetchEntryResult is sent.
C5_InternalFetchResultIsPublish ==
    [][(IsServe(lastOp', "HandleFetchEntryResult")
           /\ lastOp'.msg.request_id \in DOMAIN request_book) =>
          LET r == lastOp'.msg
              p == serve(Cur, EntryData("PublishEntry", r.dna_address,
                                        r.provider_agent_id, r.entry_address,
                                        r.entry_content))
          IN /\ emitted' = p.emitted
             /\ result' = p.result
             /\ senders' = p.senders
             /\ senders_by_dna' = p.senders_by_dna
             /\ published_entry_book' = p.published_entry_book
             /\ stored_entry_book' = p.stored_entry_book
             /\ published_meta_book' = p.published_meta_book
             /\ stored_meta_book' = p.stored_meta_book
             /\ trackdna_book' = p.trackdna_book
             /\ request_count' = p.request_count
             /\ p.request_book = request_book
             /\ request_book' = MapRemove(request_book, r.request_id)
             /\ \A i \in 1..Len(emitted') : emitted'[i].msg.type # "FetchEntryResult"]_vars

\* the reply to one of the server's own requests has been fanned out as a
\* store request to two sinks, and the request is no longer pending
C5_Witness ==
    /\ IsServe(lastOp, "HandleFetchEntryResult")
    /\ result = Ok
    /\ Contains(issued, lastOp.msg.request_id)
    /\ lastOp.msg.request_id \notin DOMAIN request_book
    /\ lastOp.msg.requester_agent_id # lastOp.msg.provider_agent_id
    /\ Len(emitted) = 2
    /\ \A i \in 1..Len(emitted) :
           emitted[i].msg = EntryData("HandleStoreEntry", lastOp.msg.dna_address,
                                      lastOp.msg.provider_agent_id,
                                      lastOp.msg.entry_address,
                                      lastOp.msg.entry_content)
    /\ Contains(KnownList(published_entry_book,
                          cat_dna_agent(lastOp.msg.dna_address,
                                        lastOp.msg.provider_agent_id)),
                lastOp.msg.entry_address)

\* ---- C6 (SpecLedger)
\* C6: the request ids the server has issued are pairwise distinct, and the
\* n-th of them is req_n.
C6_RequestIdsNeverReused ==
    /\ \A i, j \in 1..Len(issued) : i # j => issued[i] # issued[j]
    /\ \A i \in 1..Len(issued) : issued[i] = "req_" \o ToString(i)

\* an id has been issued after an earlier one was consumed
C6_Witness ==
    /\ Len(issued) >= 5
    /\ issued[1] \notin DOMAIN request_book
    /\ issued[5] \in DOMAIN request_book

\* ---- C15 (SpecMembership)
\* C15: client_count is never negative; a clock_out at client_count zero
\* panics and leaves the count at zero, every other clock_out decrements it by
\* exactly one, and clock_in increments it by exactly one.
C15_ClientCountNeverNegative ==
    [][/\ client_count' >= 0
       /\ lastOp'.op = "clock_out" =>
             IF client_count = 0
             THEN result' = Panic /\ client_count' = 0
             ELSE result' = Ok /\ client_count' = client_count - 1
       /\ lastOp'.op = "clock_in" =>
             result' = Ok /\ client_count' = client_count + 1]_vars

\* a clock_out on a server without clients, which had routes: the call panicked
C15_Witness ==
    /\ lastOp.op = "clock_out"
    /\ result = Panic
    /\ client_count = 0
    /\ senders # EmptyMap

\* ---- C16 (Spec)
\* the HandleFetchEntry(f) forwarded to the first sink of f.dna
FetchForwarded(f, by_dna) ==
    <<[sink |-> by_dna[f.dna_address][1],
       msg |-> [f EXCEPT !.type = "HandleFetchEntry"]]>>

Unicast(bucket_id, msg) == <<[sink |-> senders[bucket_id], msg |-> msg]>>

\* serving a FailureResult for one of the server's own requests: nothing is
\* sent, the id leaves request_book, nothing else changes, Ok
FailureSwallowed ==
    /\ emitted' = <<>>
    /\ result' = Ok
    /\ request_book' = MapRemove(request_book, lastOp'.msg.request_id)
    /\ UNCHANGED <<senders, senders_by_dna, client_count, published_entry_book,
                   stored_entry_book, published_meta_book, stored_meta_book,
                   trackdna_book, request_count>>

\* C13 as claimed: a FailureResult with a pending id is swallowed; one with
\* any other id is sent, as it is, to the sink of (dna, to_agent), and
\* changes no state.
C13_FailureResultSwallowedOrRelayed ==
    [][IsServe(lastOp', "FailureResult") =>
          LET m == lastOp'.msg
              bucket_id == cat_dna_agent(m.dna_address, m.to_agent_id)
          IN IF m.request_id \in DOMAIN request_book
             THEN FailureSwallowed
             ELSE /\ bucket_id \in DOMAIN senders => emitted' = Unicast(bucket_id, m)
                  /\ UNCHANGED serverVars]_vars

\* C13 as amended: a FailureResult with a pending id is swallowed; one with
\* any other id changes no state and, if (dna, to_agent) has a sink whose
\* receiver is alive, is sent as it is to that sink only and serve returns Ok;
\* otherwise nothing is sent and serve returns the error.
C13_FailureResultSwallowedOrRelayedIfAlive ==
    [][IsServe(lastOp', "FailureResult") =>
          LET m == lastOp'.msg
              bucket_id == cat_dna_agent(m.dna_address, m.to_agent_id)
          IN IF m.request_id \in DOMAIN request_book
             THEN FailureSwallowed
             ELSE /\ IF bucket_id \notin DOMAIN senders
                     THEN emitted' = <<>> /\ result' = ErrNoSender
                     ELSE IF senders[bucket_id] \in closed
                     THEN emitted' = <<>> /\ result' = ErrSend
                     ELSE emitted' = Unicast(bucket_id, m) /\ result' = Ok
                  /\ UNCHANGED serverVars]_vars

\* a FailureResult to a request of the handshake was swallowed although the
\* agent it names has a sink that is alive
C13_Witness ==
    /\ IsServe(lastOp, "FailureResult")
    /\ Contains(issued, lastOp.msg.request_id)
    /\ lastOp.msg.request_id \notin DOMAIN request_book
    /\ Cardinality(DOMAIN request_book) = 3
    /\ emitted = <<>>
    /\ result = Ok
    /\ LET bucket_id == cat_dna_agent(lastOp.msg.dna_address, lastOp.msg.to_agent_id)
       IN bucket_id \in DOMAIN senders /\ senders[bucket_id] \notin closed

\* ---- C17 (SpecRelay)
\* the bucket a message is unicast to, as <<bucket>>; <<>> if serving it
\* makes no unicast
UnicastBucket(m) ==
    CASE m.type \in {"SuccessResult", "SendMessage", "HandleSendMessageResult"} ->
             <<cat_dna_agent(m.dna_address, m.to_agent_id)>>
      [] m.type = "FailureResult" ->
             IF m.request_id \in DOMAIN request_book THEN <<>>
             ELSE <<cat_dna_agent(m.dna_address, m.to_agent_id)>>
      [] m.type = "HandleFetchEntryResult" ->
             IF m.request_id \in DOMAIN request_book THEN <<>>
             ELSE <<cat_dna_agent(m.dna_address, m.requester_agent_id)>>
      [] m.type = "FetchEntry" ->
             IF HasSinks(senders_by_dna, m.dna_address) THEN <<>>
             ELSE <<cat_dna_agent(m.dna_address, m.requester_agent_id)>>
      [] m.type = "TrackDna" ->
             IF cat_dna_agent(m.dna_address, m.agent_id) \in trackdna_book THEN <<>>
             ELSE <<cat_dna_agent(m.dna_address, m.agent_id)>>
      [] OTHER -> <<>>

\* C17: whenever serving a message requires a unicast to a bucket without a
\* sink in senders, serve returns an error to its caller and emits no
\* FailureResult.
C17_NoRouteIsAnError ==
    [][(lastOp'.op = "serve"
           /\ UnicastBucket(lastOp'.msg) # <<>>
           /\ UnicastBucket(lastOp'.msg)[1] \notin DOMAIN senders) =>
          /\ result' \in {ErrNoSender, ErrSend}
          /\ \A i \in 1..Len(emitted') : emitted'[i].msg.type # "FailureResult"]_vars

\* ---- C19 (SpecRelay)
\* C19: register(dna, agent, sink) sets senders[bucket] to the sink, appends
\* the sink to senders_by_dna[dna] whatever the list holds, returns Ok and
\* changes nothing else; a unicast that goes through goes to senders[bucket]
\* only, and a multicast that goes through is delivered once per entry of
\* senders_by_dna[dna], in the order of the list.
C19_RegisterNeverDeduplicates ==
    [][/\ lastOp'.op = "register" =>
             LET dna == lastOp'.dna_address
                 bucket_id == cat_dna_agent(dna, lastOp'.agent_id)
             IN /\ result' = Ok
                /\ emitted' = <<>>
                /\ senders' = MapInsert(senders, bucket_id, lastOp'.sender)
                /\ DOMAIN senders_by_dna' = DOMAIN senders_by_dna \cup {dna}
                /\ \A d \in DOMAIN senders_by_dna' :
                      senders_by_dna'[d] =
                          IF d # dna THEN senders_by_dna[d]
                          ELSE Append(KnownList(senders_by_dna, dna), lastOp'.sender)
                /\ UNCHANGED <<client_count, published_entry_book,
                               stored_entry_book, published_meta_book,
                               stored_meta_book, trackdna_book, request_book,
                               request_count>>
       /\ (IsServe(lastOp', "SendMessage") /\ result' = Ok) =>
             LET m == lastOp'.msg
                 bucket_id == cat_dna_agent(m.dna_address, m.to_agent_id)
             IN /\ bucket_id \in DOMAIN senders
                /\ emitted' = Unicast(bucket_id, [m EXCEPT !.type = "HandleSendMessage"])
       /\ (IsServe(lastOp', "TrackDna") /\ result' = Ok
              /\ cat_dna_agent(lastOp'.msg.dna_address, lastOp'.msg.agent_id)
                     \notin trackdna_book) =>
             LET m == lastOp'.msg
                 arr == KnownList(senders_by_dna, m.dna_address)
             IN /\ Len(emitted') = Len(arr) + 4
                /\ \A i \in 1..Len(arr) :
                      emitted'[i] = [sink |-> arr[i],
                                     msg |-> PeerConnectedMsg(m.agent_id)]]_vars

\* the same agent has registered twice, with two sinks: the later sink is its
\* unicast route and both are on the multicast list of the DNA
C19_Witness ==
    /\ lastOp.op = "register"
    /\ result = Ok
    /\ LET dna == lastOp.dna_address
           bucket_id == cat_dna_agent(dna, lastOp.agent_id)
       IN /\ DOMAIN senders = {bucket_id}
          /\ Len(senders_by_dna[dna]) = 2
          /\ senders_by_dna[dna][1] # senders_by_dna[dna][2]
          /\ senders[bucket_id] = senders_by_dna[dna][2]
          /\ senders[bucket_id] = lastOp.sender

\* ---- C11 (SpecReconcile)
\* the variants that answer a request
ReplyTypes ==
    {"FailureResult", "HandleFetchEntryResult",
     "HandleGetPublishingEntryListResult", "HandleGetHoldingEntryListResult"}

\* C11: every key of request_book is req_n for some n in 1..request_count; an
\* id enters request_book only in the call that issues it (never because a
\* client named it), and an id a reply carries is no longer there once that
\* reply has been served.
C11_LedgerHoldsOwnPendingIds ==
    [][/\ \A id \in DOMAIN request_book' :
             \E n \in 1..request_count' : id = "req_" \o ToString(n)
       /\ \A id \in DOMAIN request_book' \ DOMAIN request_book :
             /\ \E i \in (Len(issued) + 1)..Len(issued') : issued'[i] = id
             /\ ~Contains(issued, id)
       /\ (lastOp'.op = "serve" /\ lastOp'.msg.type \in ReplyTypes) =>
             lastOp'.msg.request_id \notin DOMAIN request_book']_vars

\* a client has sent a reply naming req_5 before the server issued it, and a
\* reply naming req_1 has been served: the ledger holds the other three ids
\* of the handshake and nothing else
C11_Witness ==
    /\ lastOp.op = "serve"
    /\ lastOp.msg.type \in ReplyTypes
    /\ lastOp.msg.request_id = "req_5"
    /\ result = Ok
    /\ request_count = 4
    /\ DOMAIN request_book = {"req_2", "req_3", "req_4"}

\* ---- C14 (SpecReconcile)
\* the addresses of list that are not in known, in the order of list
Unknown(list, known) == SelectSeq(list, LAMBDA a : ~Contains(known, a))

C20_ClocksKeepBooksAndLedger ==
    [][/\ lastOp'.op \in {"clock_in", "clock_out"} =>
             UNCHANGED <<published_entry_book, stored_entry_book,
                         published_meta_book, stored_meta_book,
                         trackdna_book, request_book, request_count>>
       /\ lastOp'.op = "clock_in" => UNCHANGED <<senders, senders_by_dna>>]_vars

\* the last client has clocked out of a server with a tracked agent, requests
\* in flight and a published entry: the routes are gone, the rest is kept
C20_Witness ==
    /\ lastOp.op = "clock_out"
    /\ result = Ok
    /\ client_count = 0
    /\ senders = EmptyMap
    /\ trackdna_book # {}
    /\ request_book # EmptyMap
    /\ published_entry_book # EmptyMap

\* ---- C12 (SpecBooks)
NoRepeats(list) == \A i, j \in 1..Len(list) : i # j => list[i] # list[j]

\* C12: once the requests of a reconciliation have all been answered (an agent
\* is tracked and no request is pending), no list of any of the four books
\* holds an address twice.
C12_NoRepeatsAfterReconciliation ==
    (result # Panic /\ trackdna_book # {} /\ request_book = EmptyMap) =>
        /\ \A b \in DOMAIN published_entry_book : NoRepeats(published_entry_book[b])
        /\ \A b \in DOMAIN stored_entry_book : NoRepeats(stored_entry_book[b])
        /\ \A b \in DOMAIN published_meta_book : NoRepeats(published_meta_book[b])
        /\ \A b \in DOMAIN stored_meta_book : NoRepeats(stored_meta_book[b])

\* ---- C18 (SpecConcurrent)
IsPrefix(a, b) == Len(a) <= Len(b) /\ \A i \in 1..Len(a) : a[i] = b[i]

\* the fields of InMemoryServer in a server record
FieldsOf(s) ==
    <<s.senders, s.senders_by_dna, s.client_count, s.published_entry_book,
      s.stored_entry_book, s.published_meta_book, s.stored_meta_book,
      s.trackdna_book, s.request_book, s.request_count>>

\* C18: calls made in parallel take effect one at a time, in the order they
\* lock the server: what a sink's channel holds is always the beginning of
\* what it holds when the calls begun so far are run one after the other in
\* that order (so the messages of two calls never interleave and those of one
\* call keep their order), and whenever no call is in progress the server's
\* state and the channels are those of that sequential run.
C18_CallsLinearized ==
    /\ Cardinality({c \in Clients : call[c] # Idle}) <= 1
    /\ \A snk \in Sinks : IsPrefix(inbox[snk], seq_inbox[snk])
    /\ (\A c \in Clients : call[c] = Idle) =>
          /\ inbox = seq_inbox
          /\ FieldsOf(Cur) = FieldsOf(seq_state)

\* two clients have each completed a call that sent to the same sink, one of
\* them a call that sent it several messages
C18_Witness ==
    /\ \A c \in Clients : call[c] = Idle
    /\ \E snk \in Sinks :
          /\ Len(inbox[snk]) >= 6
          /\ \E i, j \in 1..Len(inbox[snk]) :
                /\ inbox[snk][i].client # inbox[snk][j].client
                /\ inbox[snk][i].call # inbox[snk][j].call

\* ---- C21 (SpecRelay)
\* C21 as claimed: serving HandleFetchEntryResult(r) whose request_id is not
\* in request_book sends exactly one FetchEntryResult(r), to the sink of
\* (r.dna, r.requester), nothing else to anyone, and leaves
\* published_entry_book and request_book as they were.
C21_ExternalFetchResultRelayed ==
    [][(IsServe(lastOp', "HandleFetchEntryResult")
           /\ lastOp'.msg.request_id \notin DOMAIN request_book
           /\ cat_dna_agent(lastOp'.msg.dna_address,
                            lastOp'.msg.requester_agent_id) \in DOMAIN senders) =>
          LET r == lastOp'.msg
              bucket_id == cat_dna_agent(r.dna_address, r.requester_agent_id)
          IN /\ emitted' = Unicast(bucket_id, [r EXCEPT !.type = "FetchEntryResult"])
             /\ UNCHANGED <<published_entry_book, request_book>>]_vars

\* C21 as amended: such a reply changes no state; if (r.dna, r.requester) has
\* a sink whose receiver is alive, exactly one FetchEntryResult(r) is sent, to
\* that sink, and serve returns Ok; if the bucket has no sink, or its receiver
\* has been dropped, nothing is sent and serve returns the error.
C21_ExternalFetchResultRelayedIfAlive ==
    [][(IsServe(lastOp', "HandleFetchEntryResult")
           /\ lastOp'.msg.request_id \notin DOMAIN request_book) =>
          LET r == lastOp'.msg
              bucket_id == cat_dna_agent(r.dna_address, r.requester_agent_id)
          IN /\ IF bucket_id \notin DOMAIN senders
                THEN emitted' = <<>> /\ result' = ErrNoSender
                ELSE IF senders[bucket_id] \in closed
                THEN emitted' = <<>> /\ result' = ErrSend
                ELSE /\ emitted' = Unicast(bucket_id,
                                           [r EXCEPT !.type = "FetchEntryResult"])
                     /\ result' = Ok
             /\ UNCHANGED serverVars]_vars

\* a reply to a request that is not the server's own, provided by an agent
\* other than the requester, went to the requester's sink while the provider
\* has a sink of its own and the server has requests pending
C21_Witness ==
    /\ IsServe(lastOp, "HandleFetchEntryResult")
    /\ lastOp.msg.request_id \notin DOMAIN request_book
    /\ lastOp.msg.provider_agent_id # lastOp.msg.requester_agent_id
    /\ request_book # EmptyMap
    /\ result = Ok
    /\ Len(emitted) = 1
    /\ emitted[1].msg.type = "FetchEntryResult"
    /\ LET r == lastOp.msg
           to == cat_dna_agent(r.dna_address, r.requester_agent_id)
           from == cat_dna_agent(r.dna_address, r.provider_agent_id)
       IN /\ to \in DOMAIN senders /\ from \in DOMAIN senders
          /\ senders[to] # senders[from]
          /\ emitted[1].sink = senders[to]

\* ---- C22 (SpecMeta)
\* the first n fetches the server sends for the pairs of list, with the
\* request ids that follow base, to the sink of bucket_id
MetaFetches(bucket_id, dna, list, base, n) ==
    [i \in 1..n |->
        [sink |-> senders[bucket_id],
         msg |-> FetchMetaData("HandleFetchMeta", "", RequestIdOf(base + i), dna,
                               list[i][1], list[i][2])]]

\* request_book once id has been consumed and the n ids that follow base have
\* been registered for bucket_id
Reissued(id, bucket_id, base, n) ==
    [r \in (DOMAIN request_book \ {id}) \cup {RequestIdOf(base + i) : i \in 1..n} |->
        IF r \in {RequestIdOf(base + i) : i \in 1..n} THEN bucket_id
        ELSE request_book[r]]

HasStore(snk, address) ==
    \E i \in 1..Len(inbox[snk]) :
        /\ inbox[snk][i].msg.type = "HandleStoreEntry"
        /\ inbox[snk][i].msg.entry_address = address

SinksOn(dna) ==
    IF dna \in DOMAIN senders_by_dna
    THEN {senders_by_dna[dna][i] : i \in 1..Len(senders_by_dna[dna])}
    ELSE {}

\* the reconciliation of bucket_id's published entries is complete, as far as
\* the sinks in snks go
Reconciled(bucket_id, snks) ==
    /\ bucket_id \in DOMAIN answered
    /\ LET r == answered[bucket_id]
       IN /\ \A i \in 1..Len(r.list) :
                Contains(KnownList(published_entry_book, bucket_id), r.list[i])
          /\ \A snk \in snks : \A e \in r.fetched : HasStore(snk, e)
          /\ r.ids \cap DOMAIN request_book = {}

\* the agent of bucket_id has just answered HandleGetPublishingEntryList
JustAnswered(bucket_id) ==
    /\ bucket_id \in DOMAIN answered
    /\ IsServe(lastOp, "HandleGetPublishingEntryListResult")
    /\ result = Ok

\* C23 as claimed: once a registered and tracked agent has answered
\* HandleGetPublishingEntryList with a list, and goes on answering every
\* HandleFetchEntry it receives, eventually every address of the list is in
\* published_entry_book[bucket], every sink on the DNA has received a
\* HandleStoreEntry for each fetched address, and none of the request ids of
\* this reconciliation is left in request_book.
C23_ReconciliationCompletes ==
    \A p \in CompleteWorld.pairs :
        LET bucket_id == cat_dna_agent(p[1], p[2])
        IN JustAnswered(bucket_id) ~> Reconciled(bucket_id, SinksOn(p[1]))

\* C23 as amended: the same, for every sink that was on the DNA when the list
\* was answered; a sink registered on the DNA later receives the
\* HandleStoreEntry of the fetches answered after its registration only.
C23_ReconciliationCompletesForSinksPresent ==
    \A p \in CompleteWorld.pairs :
        LET bucket_id == cat_dna_agent(p[1], p[2])
        IN JustAnswered(bucket_id)
               ~> Reconciled(bucket_id, answered[bucket_id].sinks)

\* a reconciliation of two addresses, both fetched, has completed with two
\* sinks on the DNA
C23_Witness ==
    /\ "X::a1" \in DOMAIN answered
    /\ answered["X::a1"].fetched = {"E1", "E2"}
    /\ answered["X::a1"].sinks = {"A", "B"}
    /\ Reconciled("X::a1", answered["X::a1"].sinks)

\* ---- C24 (Spec)
\* agent is the only node registered on dna: its bucket has a sink and no
\* other bucket of the DNA has one
OnlyNodeOn(dna, agent) ==
    /\ cat_dna_agent(dna, agent) \in DOMAIN senders
    /\ \A p \in RoutingWorld.pairs :
          (p[1] = dna /\ cat_dna_agent(p[1], p[2]) \in DOMAIN senders) => p[2] = agent

\* C24: when FetchEntry is served and the requester is the only node
\* registered on the DNA, a FailureResult is sent to the requester and no
\* HandleFetchEntry is forwarded to anyone.
C24_LoneRequesterGetsFailure ==
    [][(IsServe(lastOp', "FetchEntry")
           /\ OnlyNodeOn(lastOp'.msg.dna_address, lastOp'.msg.requester_agent_id)
           /\ senders[cat_dna_agent(lastOp'.msg.dna_address,
                                    lastOp'.msg.requester_agent_id)] \notin closed) =>
          LET f == lastOp'.msg
          IN /\ \E i \in 1..Len(emitted') :
                   /\ emitted'[i].msg.type = "FailureResult"
                   /\ emitted'[i].sink =
                          senders[cat_dna_agent(f.dna_address, f.requester_agent_id)]
             /\ \A i \in 1..Len(emitted') :
                   emitted'[i].msg.type # "HandleFetchEntry"]_vars

\* ---- C25 (SpecFrame)
\* the messages the server takes for replies to its own requests
LedgerReplyTypes ==
    {"FailureResult", "HandleFetchEntryResult", "HandleFetchMetaResult",
     "HandleGetPublishingEntryListResult", "HandleGetHoldingEntryListResult",
     "HandleGetPublishingMetaListResult", "HandleGetHoldingMetaListResult"}

\* the call just made was the serving of a reply that carries id
AnswersTo(op, id) ==
    /\ op.op = "serve"
    /\ op.msg.type \in LedgerReplyTypes
    /\ op.msg.request_id = id

\* C25: an id in request_book stays there, mapped to the same bucket, through
\* every call that is not the serving of a reply carrying that id: register,
\* clock_in, clock_out, replies with another id, and messages that are no
\* reply, whatever id they carry.
C25_PendingUntilAnswered ==
    [][\A id \in DOMAIN request_book :
          ~AnswersTo(lastOp', id) =>
              /\ id \in DOMAIN request_book'
              /\ request_book'[id] = request_book[id]]_vars

\* a SuccessResult that carries the id of a pending request has been relayed,
\* and the request is still pending
C25_Witness ==
    /\ IsServe(lastOp, "SuccessResult")
    /\ lastOp.msg.request_id \in DOMAIN request_book
    /\ result = Ok
    /\ Len(emitted) = 1
    /\ Cardinality(DOMAIN request_book) = 4

\* ---- C26 (SpecScope)
\* C26 as claimed: whatever message is served, everything it makes the server
\* send goes to sinks registered on the DNA the message names.
C26_RoutingScopedByDna ==
    lastOp.op = "serve" =>
        \A i \in 1..Len(emitted) : emitted[i].sink \in SinksOn(lastOp.msg.dna_address)

\* C26 as amended: the same, except for the fetches sent when a
\* HandleGetPublishingEntryListResult is served: they go to the sink of the
\* bucket its request id was issued for, whatever DNA the reply names.
C26_RoutingScopedByDnaOrRequest ==
    [][lastOp'.op = "serve" =>
          IF lastOp'.msg.type = "HandleGetPublishingEntryListResult"
          THEN \A i \in 1..Len(emitted') :
                  /\ lastOp'.msg.request_id \in DOMAIN request_book
                  /\ request_book[lastOp'.msg.request_id] \in DOMAIN senders
                  /\ emitted'[i].sink = senders[request_book[lastOp'.msg.request_id]]
          ELSE \A i \in 1..Len(emitted') :
                  emitted'[i].sink \in SinksOn(lastOp'.msg.dna_address)]_vars

\* an entry published on one DNA went to the sink on that DNA, and not to the
\* sink the same agent has registered on the other DNA only
C26_Witness ==
    /\ IsServe(lastOp, "PublishEntry")
    /\ result = Ok
    /\ emitted # <<>>
    /\ \E d \in DnasOf(ScopeWorld) \ {lastOp.msg.dna_address} :
          /\ SinksOn(d) # {}
          /\ SinksOn(d) \cap SinksOn(lastOp.msg.dna_address) = {}
          /\ cat_dna_agent(d, lastOp.msg.provider_agent_id) \in DOMAIN senders

\* ---- C27 (Spec)
\* where in arr the first sink is whose receiver has been dropped; 0 if none
FirstClosed(arr) ==
    LET dropped == {i \in 1..Len(arr) : arr[i] \in closed}
    IN IF dropped = {} THEN 0
       ELSE CHOOSE i \in dropped : \A j \in dropped : i <= j

\* C27: when PublishEntry(e) is served and a sink registered on e.dna has its
\* receiver dropped, serve returns the send error, every sink registered
\* before the first such sink has been sent HandleStoreEntry(e), in the order
\* of registration, nothing is sent for the registrations after it, and
\* e.entry_address has been appended to published_entry_book all the same.
C27_FanOutStopsAtFirstFailure ==
    [][(IsServe(lastOp', "PublishEntry")
           /\ HasSinks(senders_by_dna, lastOp'.msg.dna_address)
           /\ FirstClosed(senders_by_dna[lastOp'.msg.dna_address]) # 0) =>
          LET e == lastOp'.msg
              arr == senders_by_dna[e.dna_address]
          IN /\ result' = ErrSend
             /\ emitted' = [i \in 1..(FirstClosed(arr) - 1) |->
                               [sink |-> arr[i],
                                msg |-> [e EXCEPT !.type = "HandleStoreEntry"]]]
             /\ published_entry_book' =
                    bookkeep_address(published_entry_book, e.dna_address,
                                     e.provider_agent_id, e.entry_address)
             /\ UNCHANGED <<senders, senders_by_dna, client_count,
                            stored_entry_book, published_meta_book,
                            stored_meta_book, trackdna_book, request_book,
                            request_count>>]_vars

\* an entry was published on a DNA whose first sink has dropped its receiver
\* and whose second has not: nothing was sent, and the address is in the book
C27_Witness ==
    /\ IsServe(lastOp, "PublishEntry")
    /\ result = ErrSend
    /\ emitted = <<>>
    /\ LET e == lastOp.msg
           arr == senders_by_dna[e.dna_address]
       IN /\ Len(arr) = 2
          /\ arr[1] \in closed
          /\ arr[2] \notin closed
          /\ Contains(KnownList(published_entry_book,
                                cat_dna_agent(e.dna_address, e.provider_agent_id)),
                      e.entry_address)

\* ---- C28 (SpecConsume)
ListReplyTypes ==
    {"HandleGetPublishingEntryListResult", "HandleGetHoldingEntryListResult",
     "HandleGetPublishingMetaListResult", "HandleGetHoldingMetaListResult"}

RelayedTypes == {"FailureResult", "FetchEntryResult", "FetchMetaResult"}

\* where a reply that answers no request of the server is relayed to, and as what
RelayBucket(m) ==
    IF m.type = "FailureResult"
    THEN cat_dna_agent(m.dna_address, m.to_agent_id)
    ELSE cat_dna_agent(m.dna_address, m.requester_agent_id)

RelayedAs(m) ==
    CASE m.type = "FailureResult" -> m
      [] m.type = "HandleFetchEntryResult" -> [m EXCEPT !.type = "FetchEntryResult"]
      [] m.type = "HandleFetchMetaResult" -> [m EXCEPT !.type = "FetchMetaResult"]

\* C28: replies are matched with requests by id alone, and an id is consumed
\* at most once. Serving a FailureResult, a HandleFetchEntryResult, a
\* HandleFetchMetaResult or one of the four list replies whose id is in
\* request_book removes the id, whichever bucket the id was issued for and
\* whichever agent the reply names, and the reply is handled as the server's
\* own (not relayed, not fatal). Serving one whose id is not in request_book
\* leaves request_book alone: a list reply is fatal, the others are relayed to
\* the agent they name (an error if that agent has no sink). An id that has
\* left request_book never comes back.
C28_RepliesConsumeById ==
    [][/\ (lastOp'.op = "serve" /\ lastOp'.msg.type \in LedgerReplyTypes) =>
            LET m == lastOp'.msg
                id == m.request_id
            IN IF id \in DOMAIN request_book
               THEN /\ id \notin DOMAIN request_book'
                    /\ result' # Panic
                    /\ \A i \in 1..Len(emitted') :
                           emitted'[i].msg.type \notin RelayedTypes
               ELSE /\ UNCHANGED serverVars
                    /\ IF m.type \in ListReplyTypes
                       THEN result' = Panic /\ emitted' = <<>>
                       ELSE IF RelayBucket(m) \notin DOMAIN senders
                       THEN result' = ErrNoSender /\ emitted' = <<>>
                       ELSE IF senders[RelayBucket(m)] \in closed
                       THEN result' = ErrSend /\ emitted' = <<>>
                       ELSE /\ result' = Ok
                            /\ emitted' = Unicast(RelayBucket(m), RelayedAs(m))
       /\ \A i \in 1..Len(issued) :
              issued[i] \notin DOMAIN request_book =>
                  issued[i] \notin DOMAIN request_book']_vars

\* the id of a list request made for agent a1, the only agent with a sink, was
\* consumed by a HandleFetchMetaResult naming agent a2 as provider: the meta
\* was published as the answer to a fetch of the server
C28_Witness ==
    /\ IsServe(lastOp, "HandleFetchMetaResult")
    /\ lastOp.msg.request_id = RequestIdOf(1)
    /\ lastOp.msg.provider_agent_id = "a2"
    /\ DOMAIN senders = {cat_dna_agent("X", "a1")}
    /\ Len(issued) = 4
    /\ RequestIdOf(1) \notin DOMAIN request_book
    /\ result = Ok
    /\ Len(emitted) = 1
    /\ emitted[1].msg.type = "HandleStoreMeta"

====
